---- MODULE Spec2Model ----
(***************************************************************************)
(* Operation model builder of fastapi-code-generator                        *)
(* (fastapi_code_generator/parser.py): Argument, Operation and the          *)
(* OpenAPIParser callbacks parse_request_body, parse_responses,             *)
(* get_parameter_type, get_argument_list and parse_operation; the           *)
(* operation visitor (visitors/operations.py); and generate_code            *)
(* (fastapi_code_generator/__main__.py) with the files of its output        *)
(* directory; and the patched Parser.parse that partitions the data models  *)
(* into modules (fastapi_code_generator/__init__.py and patches.py).        *)
(*                                                                          *)
(* Text is a sequence of atoms.  Identifiers and paths are spelled one      *)
(* character per atom; fixed pieces of rendered code ("Optional[", ": ",    *)
(* " = ", a resolved type name) are one atom each.  An absent Optional[str] *)
(* (Python None) is the empty text: no text the code produces is empty.     *)
(***************************************************************************)
EXTENDS Integers, Sequences, FiniteSets, TLC

VARIABLES
    operations,   \* OpenAPIParser.operations: resolved path -> Operation
    reads,        \* texts returned so far by Operation.arguments / snake_case_arguments
    parse_log,    \* the parse_operation calls made so far: <<resolved path, raw operation>>
    failed,       \* TRUE once a parse_operation call has raised
    all_tags,     \* __main__.all_tags, the module-level list, as the set of its items
    files,        \* the files under output_dir: path -> content
    runs,         \* the generate_code calls made so far in this process
    edits,        \* the number of hand edits made to files of output_dir
    parse_input,  \* what the patched Parser.parse was called on, <<>> before the call
    processed_models, \* processed_models of the patched parse, after its passes
    module_results    \* what the patched parse returned

vars == <<operations, reads, parse_log, failed, all_tags, files, runs, edits,
          parse_input, processed_models, module_results>>

\* The variables of the parser and those of generate_code.
parser_vars == <<operations, reads, parse_log, failed>>
generate_vars == <<all_tags, files, runs, edits>>
partition_vars == <<parse_input, processed_models, module_results>>

----------------------------------------------------------------------------
(* Bounds of the model *)

MaxParams == 2
MaxReads == 2
MaxStatuses == 2
MaxOperations == 2

----------------------------------------------------------------------------
(* Text helpers *)

None == <<>>

RECURSIVE Join(_, _)
Join(texts, sep) ==
    IF texts = <<>> THEN <<>>
    ELSE IF Len(texts) = 1 THEN texts[1]
    ELSE texts[1] \o sep \o Join(Tail(texts), sep)

RECURSIVE Concat(_)
Concat(texts) == IF texts = <<>> THEN <<>> ELSE texts[1] \o Concat(Tail(texts))

Map1(f(_), s) == [i \in 1..Len(s) |-> f(s[i])]

Contains(text, atom) == \E i \in 1..Len(text) : text[i] = atom

UpperSeq == <<"A","B","C","D","E","F","G","H","I","J","K","L","M",
              "N","O","P","Q","R","S","T","U","V","W","X","Y","Z">>
LowerSeq == <<"a","b","c","d","e","f","g","h","i","j","k","l","m",
              "n","o","p","q","r","s","t","u","v","w","x","y","z">>
DigitSet == {"0","1","2","3","4","5","6","7","8","9"}

IsUpper(c) == \E i \in 1..Len(UpperSeq) : UpperSeq[i] = c
IsLower(c) == \E i \in 1..Len(LowerSeq) : LowerSeq[i] = c
lowercase(c) ==
    IF IsUpper(c) THEN LowerSeq[CHOOSE i \in 1..Len(UpperSeq) : UpperSeq[i] = c] ELSE c

\* stringcase.snakecase: "-", "." and white space become "_", the first
\* character is lowercased, every later capital X becomes "_x".
snakecase(string) ==
    LET s == [i \in 1..Len(string) |->
                 IF string[i] \in {"-", ".", " "} THEN "_" ELSE string[i]]
    IN  IF s = <<>> THEN s
        ELSE <<lowercase(s[1])>> \o
             Concat([i \in 1..(Len(s) - 1) |->
                        IF IsUpper(s[i + 1]) THEN <<"_", lowercase(s[i + 1])>>
                        ELSE <<s[i + 1]>>])

\* model_resolver.get_valid_field_name: a character that cannot stand in an
\* identifier becomes "_".
get_valid_field_name(name) ==
    [i \in 1..Len(name) |->
        IF IsUpper(name[i]) \/ IsLower(name[i]) \/ name[i] \in DigitSet \/ name[i] = "_"
        THEN name[i] ELSE "_"]

----------------------------------------------------------------------------
(* Argument *)

NoField == [kind |-> "none", hints |-> <<>>]
OneField(hint) == [kind |-> "one", hints |-> <<hint>>]
ListField(hints) == [kind |-> "list", hints |-> hints]

\* The type hint Argument.argument and Argument.snakecase render:
\* type_hint without a field, the field's hint for one field, Union[...] of
\* the fields' hints for a list of fields.
rendered_type_hint(arg) ==
    IF arg.field.kind = "none" THEN arg.type_hint
    ELSE IF arg.field.kind = "one" THEN arg.field.hints[1]
    ELSE <<"Union[">> \o Join(arg.field.hints, <<", ">>) \o <<"]">>

RenderNoDefault(name, hint) == name \o <<": ">> \o hint
RenderDefault(name, hint, default) ==
    name \o <<": ">> \o hint \o <<" = ">> \o (IF default = None THEN <<"None">> ELSE default)

\* Argument.argument
argument(arg) ==
    IF arg.default = None /\ arg.required
    THEN RenderNoDefault(arg.name, rendered_type_hint(arg))
    ELSE RenderDefault(arg.name, rendered_type_hint(arg), arg.default)

\* Argument.snakecase
argument_snakecase(arg) ==
    IF arg.default = None /\ arg.required
    THEN RenderNoDefault(snakecase(arg.name), rendered_type_hint(arg))
    ELSE RenderDefault(snakecase(arg.name), rendered_type_hint(arg), arg.default)

----------------------------------------------------------------------------
(* Operation.merge_arguments_with_union and the two rendered properties *)

RECURSIVE GroupNames(_)
\* The keys of grouped_arguments, in insertion (first appearance) order.
GroupNames(arguments) ==
    IF arguments = <<>> THEN <<>>
    ELSE LET init == GroupNames(SubSeq(arguments, 1, Len(arguments) - 1))
             name == arguments[Len(arguments)].name
         IN  IF \E i \in 1..Len(init) : init[i] = name THEN init ELSE Append(init, name)

\* The positions of the arguments grouped under one name, in order.
GroupIndexes(arguments, name) ==
    SelectSeq([i \in 1..Len(arguments) |-> i], LAMBDA i : arguments[i].name = name)

\* `fields` of lines 165-173: the fields of every member that has one, a list
\* field contributing each of its items.
GroupFields(arguments, name) ==
    LET idx == GroupIndexes(arguments, name)
    IN  Concat([k \in 1..Len(idx) |-> arguments[idx[k]].field.hints])

MergedArgument(arguments, name) ==
    LET idx == GroupIndexes(arguments, name)
    IN  IF Len(idx) = 1 THEN arguments[idx[1]]
        ELSE [arguments[idx[1]] EXCEPT !.field = ListField(GroupFields(arguments, name))]

\* A variant that appends the merged argument once for every member of a
\* group instead of once for the group.
merge_once_per_member(arguments) ==
    [i \in 1..Len(arguments) |-> MergedArgument(arguments, arguments[i].name)]

\* The list merge_arguments_with_union returns.
merge_arguments_with_union(arguments) ==
    LET names == GroupNames(arguments)
    IN  [k \in 1..Len(names) |-> MergedArgument(arguments, names[k])]

\* The argument objects after the call: line 174 assigns the merged field to
\* the group's first member, which is an element of the list passed in.
arguments_after_merge(arguments) ==
    [i \in 1..Len(arguments) |->
        LET idx == GroupIndexes(arguments, arguments[i].name)
        IN  IF Len(idx) > 1 /\ idx[1] = i
            THEN MergedArgument(arguments, arguments[i].name)
            ELSE arguments[i]]

\* Operation.arguments
arguments_text(arguments_list) ==
    Join(Map1(argument, merge_arguments_with_union(arguments_list)), <<", ">>)

\* Operation.snake_case_arguments
snake_case_arguments_text(arguments_list) ==
    Join(Map1(argument_snakecase, merge_arguments_with_union(arguments_list)), <<", ">>)

----------------------------------------------------------------------------
(* OpenAPIParser.get_parameter_type *)

NoArgument ==
    [name |-> None, type_hint |-> None, default |-> None, required |-> FALSE,
     field |-> NoField]

\* in_.value.lower().capitalize()
LocationName(in_) ==
    CASE in_ = "path" -> "Path"
      [] in_ = "query" -> "Query"
      [] in_ = "header" -> "Header"
      [] in_ = "cookie" -> "Cookie"

\* repr(schema.default)
repr_default(schema) == IF schema.has_default THEN schema.default ELSE <<"None">>

ParameterName(parameter, snake_case) ==
    IF snake_case THEN snakecase(get_valid_field_name(parameter.name))
    ELSE get_valid_field_name(parameter.name)

FieldRequired(parameter) == parameter.required \/ parameter.in_ = "path"

\* Lines 356-357 raise when the parameter has neither a schema nor a content
\* schema; lines 369-379 leave `default` unbound (line 385 then raises) when
\* the name was normalised and the parameter has no location.
ParameterRaises(parameter, snake_case) ==
    \/ ~parameter.schema.present
    \/ /\ ParameterName(parameter, snake_case) # parameter.name
       /\ parameter.in_ = "none"

\* A variant that never binds an alias: the default is the schema default.
ParameterDefaultWithoutAlias(parameter, snake_case) ==
    IF parameter.schema.has_default THEN parameter.schema.default ELSE None

ParameterDefault(parameter, snake_case) ==
    IF ParameterName(parameter, snake_case) # parameter.name
    THEN <<LocationName(parameter.in_), "(">>
         \o (IF FieldRequired(parameter) THEN <<"...">> ELSE repr_default(parameter.schema))
         \o <<", alias='">> \o parameter.name \o <<"')">>
    ELSE IF parameter.schema.has_default THEN parameter.schema.default ELSE None

\* The Argument of lines 382-389, for a parameter that does not raise.
get_parameter_type(parameter, snake_case) ==
    [name |-> ParameterName(parameter, snake_case),
     type_hint |-> parameter.schema.type_hint,
     default |-> ParameterDefault(parameter, snake_case),
     required |-> FieldRequired(parameter),
     field |-> OneField(parameter.schema.type_hint)]

----------------------------------------------------------------------------
(* OpenAPIParser.parse_request_body *)

JsonMediaTypes == {"application/json", "application/vnd.api+json"}

\* RE_APPLICATION_JSON_PATTERN.match(media_type)
IsApplicationJson(media_type) == media_type \in JsonMediaTypes

NoRequestBody == [present |-> FALSE, required |-> FALSE, content |-> <<>>]

HasRule(media) ==
    /\ media.has_schema
    /\ \/ IsApplicationJson(media.media_type)
       \/ media.media_type \in {"application/x-www-form-urlencoded",
                                "application/octet-stream", "multipart/form-data"}

MediaArgument(media, required) ==
    IF IsApplicationJson(media.media_type)
    THEN [name |-> <<"b","o","d","y">>, type_hint |-> media.type_hint, default |-> None,
          required |-> required, field |-> NoField]
    ELSE IF media.media_type = "multipart/form-data"
    THEN [name |-> <<"f","i","l","e">>, type_hint |-> <<"UploadFile">>, default |-> None,
          required |-> TRUE, field |-> NoField]
    ELSE [name |-> <<"r","e","q","u","e","s","t">>, type_hint |-> <<"Request">>,
          default |-> None, required |-> TRUE, field |-> NoField]

\* A variant that keeps the argument of the last media type that has a rule.
parse_request_body_last_match(request_body) ==
    LET ruled == SelectSeq(request_body.content, HasRule)
    IN  IF ruled = <<>> THEN NoArgument
        ELSE MediaArgument(ruled[Len(ruled)], request_body.required)

\* _temporary_operation['_request'] after the call: the argument of the first
\* media type that has a rule, or None.
parse_request_body(request_body) ==
    LET ruled == SelectSeq(request_body.content, HasRule)
    IN  IF ruled = <<>> THEN NoArgument ELSE MediaArgument(ruled[1], request_body.required)

----------------------------------------------------------------------------
(* OpenAPIParser.get_argument_list *)

\* positional_argument as line 416 sets it after an argument.
positional_after(arg) ==
    \/ arg.required
    \/ arg.default # None
    \/ (arg.type_hint # <<>> /\ arg.type_hint[1] = "Optional[")

RECURSIVE ForceDefaults(_, _)
\* The loop of lines 412-420 over the rest of the list.
ForceDefaults(arguments, positional_argument) ==
    IF arguments = <<>> THEN <<>>
    ELSE LET a == arguments[1]
             b == IF positional_argument /\ a.required /\ a.default = None
                  THEN [a EXCEPT !.default = <<"...">>] ELSE a
         IN  <<b>> \o ForceDefaults(Tail(arguments), positional_after(b))

\* A variant that puts the request argument in front of the parameters.
get_argument_list_request_first(parameters, request, snake_case) ==
    LET built == [i \in 1..Len(parameters) |-> get_parameter_type(parameters[i], snake_case)]
        all == IF request = NoArgument THEN built ELSE <<request>> \o built
    IN  ForceDefaults(all, FALSE)

get_argument_list(parameters, request, snake_case) ==
    LET built == [i \in 1..Len(parameters) |-> get_parameter_type(parameters[i], snake_case)]
        all == IF request = NoArgument THEN built ELSE Append(built, request)
    IN  ForceDefaults(all, FALSE)

----------------------------------------------------------------------------
(* OpenAPIParser.parse_responses *)

\* data_types, the result of the inherited parse_responses, is a sequence of
\* [status_code, contents] in the order of the dict; contents holds the type
\* hint of each content entry of that status, in order.

NoResponses == [present |-> FALSE, data_types |-> <<>>]

StatusEntry(data_types, status_code) ==
    SelectSeq(data_types, LAMBDA e : e.status_code = status_code)

\* data_types.get('200') is truthy
HasContent200(data_types) ==
    LET e == StatusEntry(data_types, "200") IN e # <<>> /\ e[1].contents # <<>>

\* _temporary_operation['response']
response_type_hint(data_types) ==
    IF HasContent200(data_types)
    THEN StatusEntry(data_types, "200")[1].contents[1]
    ELSE <<"None">>

\* A variant without the test for "200" of line 516.
IsAdditionalWith200(e) == e.contents # <<>>

\* The entries the loop of lines 515-524 takes: not "200", some content.
IsAdditional(e) == e.status_code # "200" /\ e.contents # <<>>

\* _temporary_operation['additional_responses'] as a sequence of
\* [status_code, model] in insertion order.
additional_responses_of(data_types) ==
    LET extra == SelectSeq(data_types, IsAdditional)
    IN  [i \in 1..Len(extra) |->
            [status_code |-> extra[i].status_code, model |-> extra[i].contents[1]]]

RECURSIVE DistinctInOrder(_)
\* The keys of a dict filled by assignment in this order.
DistinctInOrder(s) ==
    IF s = <<>> THEN <<>>
    ELSE LET init == DistinctInOrder(SubSeq(s, 1, Len(s) - 1))
         IN  IF \E i \in 1..Len(init) : init[i] = s[Len(s)] THEN init
             ELSE Append(init, s[Len(s)])

\* The keys of return_types: the response hint, then each additional hint.
return_type_hints(data_types) ==
    LET extra == additional_responses_of(data_types)
    IN  DistinctInOrder(<<response_type_hint(data_types)>>
                        \o [i \in 1..Len(extra) |-> extra[i].model])

\* _temporary_operation['return_type']
return_type_hint(data_types) ==
    LET hints == return_type_hints(data_types)
    IN  IF Len(hints) = 1 THEN hints[1]
        ELSE <<"Union[">> \o Join(hints, <<", ">>) \o <<"]">>

----------------------------------------------------------------------------
(* Operation *)

\* re.sub(r"{([^\}]+)}", lambda m: stringcase.snakecase(m.group()), path):
\* the end of the match that starts at i, or 0 when none starts there.
PlaceholderEnd(path, i) ==
    IF path[i] # "{" THEN 0
    ELSE LET closing == {j \in (i + 1)..Len(path) : path[j] = "}"}
         IN  IF closing = {} THEN 0
             ELSE LET j == CHOOSE c \in closing : \A d \in closing : c <= d
                  IN  IF j = i + 1 THEN 0 ELSE j

RECURSIVE SnakeCasePathFrom(_, _)
SnakeCasePathFrom(path, i) ==
    IF i > Len(path) THEN <<>>
    ELSE LET j == PlaceholderEnd(path, i)
         IN  IF j = 0 THEN <<path[i]>> \o SnakeCasePathFrom(path, i + 1)
             ELSE snakecase(SubSeq(path, i, j)) \o SnakeCasePathFrom(path, j + 1)

\* Operation.snake_case_path
snake_case_path(path) == SnakeCasePathFrom(path, 1)

RECURSIVE SlashesToUnderscores(_, _)
\* re.sub(r'/{|/', '_', path)
SlashesToUnderscores(path, i) ==
    IF i > Len(path) THEN <<>>
    ELSE IF path[i] = "/" /\ i < Len(path) /\ path[i + 1] = "{"
    THEN <<"_">> \o SlashesToUnderscores(path, i + 2)
    ELSE IF path[i] = "/" THEN <<"_">> \o SlashesToUnderscores(path, i + 1)
    ELSE <<path[i]>> \o SlashesToUnderscores(path, i + 1)

\* Operation.function_name
function_name(op) ==
    IF op.operationId # None THEN snakecase(op.operationId)
    ELSE snakecase(op.method
                   \o SelectSeq(SlashesToUnderscores(snake_case_path(op.path), 1),
                                LAMBDA c : c # "}"))

----------------------------------------------------------------------------
(* OpenAPIParser.parse_operation *)

\* A raw operation is [operationId, parameters, requestBody, responses,
\* callbacks]; callbacks is the flattened iteration of lines 557-561, a
\* sequence of [key, route, method, op] with op a raw operation.

DigitSeq == <<"0","1","2","3","4","5","6","7","8","9">>

RECURSIVE str(_)
\* str(n) of a natural number
str(n) == IF n < 10 THEN <<DigitSeq[n + 1]>> ELSE str(n \div 10) \o <<DigitSeq[(n % 10) + 1]>>

\* f"{method}_{key}_{cb_ctr}"
synthesized_id(method, key, cb_ctr) == method \o <<"_">> \o key \o <<"_">> \o str(cb_ctr)

RawRaises(raw) ==
    \E i \in 1..Len(raw.parameters) : ParameterRaises(raw.parameters[i], TRUE)

\* self._temporary_operation as lines 539-540 and line 572 leave it.  An absent
\* key reads as the value its absence gives: .get('_request') is None, and
\* Operation takes the field default for response, additional_responses,
\* return_type and arguments_list.
EmptyScratch ==
    [_parameters |-> <<>>, _request |-> NoArgument, response |-> <<>>,
     additional_responses |-> <<>>, return_type |-> <<>>, arguments_list |-> <<>>]

\* _temporary_operation once the inherited parse_operation has called
\* parse_all_parameters (line 327 extends '_parameters'), parse_request_body
\* (line 495 sets '_request') and parse_responses (lines 521-531 set
\* 'response', 'additional_responses' and 'return_type') on the raw operation,
\* and line 545 (574-576 for a callback) has stored the argument list.
scratch_after_parse(start, raw) ==
    LET with_parameters == [start EXCEPT !._parameters = @ \o raw.parameters]
        with_request ==
            IF raw.requestBody.present
            THEN [with_parameters EXCEPT !._request = parse_request_body(raw.requestBody)]
            ELSE with_parameters
        with_responses ==
            IF raw.responses.present
            THEN [with_request EXCEPT
                     !.response = response_type_hint(raw.responses.data_types),
                     !.additional_responses =
                         additional_responses_of(raw.responses.data_types),
                     !.return_type = return_type_hint(raw.responses.data_types)]
            ELSE with_request
    IN  [with_responses EXCEPT
            !.arguments_list = get_argument_list(with_responses._parameters,
                                                 with_responses._request, TRUE)]

\* main_operation of line 547
temporary_operation(raw) == scratch_after_parse(EmptyScratch, raw)

\* Operation(**raw, **temporary, callbacks=..., path=..., method=...): the
\* keys '_request' and '_parameters' name no field of Operation, so the field
\* `request` keeps its default None.
Operation(operationId, temporary, callbacks, path, method) ==
    [method |-> method,
     path |-> path,
     operationId |-> operationId,
     request |-> NoArgument,
     response |-> temporary.response,
     additional_responses |-> temporary.additional_responses,
     return_type |-> temporary.return_type,
     callbacks |-> callbacks,
     arguments_list |-> temporary.arguments_list]

\* A variant that advances the counter for every callback, also for one with
\* an operationId of its own.
cb_ctr_counting_every_callback(raw_callbacks, i) == i - 1

\* cb_ctr before the i-th callback: the number of earlier callbacks of this
\* operation that had no operationId (lines 553, 568-570).
cb_ctr_before(raw_callbacks, i) ==
    Cardinality({j \in 1..(i - 1) : raw_callbacks[j].op.operationId = None})

\* cb_op['operationId'] after lines 568-570
callback_operation_id(raw_callbacks, i) ==
    IF raw_callbacks[i].op.operationId = None
    THEN synthesized_id(raw_callbacks[i].method, raw_callbacks[i].key,
                        cb_ctr_before(raw_callbacks, i))
    ELSE raw_callbacks[i].op.operationId

\* A variant that goes on with the dict it finds when a callback starts.
callback_scratch_kept(current) == current

\* Line 572: every callback starts with a dict of its own.
callback_scratch(current) == EmptyScratch

RECURSIVE callback_temporary(_, _, _)
\* _temporary_operation when the i-th callback is appended (line 579); `main`
\* is the dict the attribute holds when the loop starts.
callback_temporary(main, raw_callbacks, i) ==
    scratch_after_parse(
        callback_scratch(IF i = 1 THEN main
                         ELSE callback_temporary(main, raw_callbacks, i - 1)),
        raw_callbacks[i].op)

\* The Operation appended at lines 579-586 for the i-th callback.
callback_operation(main, raw_callbacks, i) ==
    Operation(callback_operation_id(raw_callbacks, i),
              callback_temporary(main, raw_callbacks, i), <<>>,
              raw_callbacks[i].route, raw_callbacks[i].method)

\* The dict `callbacks`: [key, operations] in insertion order of the keys.
callbacks_of(main, raw_callbacks) ==
    LET keys == DistinctInOrder([i \in 1..Len(raw_callbacks) |-> raw_callbacks[i].key])
    IN  [k \in 1..Len(keys) |->
            [key |-> keys[k],
             operations |->
                 LET idx == SelectSeq([i \in 1..Len(raw_callbacks) |-> i],
                                      LAMBDA i : raw_callbacks[i].key = keys[k])
                 IN  [n \in 1..Len(idx) |->
                         callback_operation(main, raw_callbacks, idx[n])]]]

\* `method` at line 593: the loop variable of line 561 rebinds the name taken
\* from the path at line 543.
method_at_end(raw, method) ==
    IF raw.callbacks = <<>> THEN method ELSE raw.callbacks[Len(raw.callbacks)].method

\* A parse_operation call raises when get_parameter_type raises for a
\* parameter of the operation or of one of its callbacks.
parse_operation_raises(raw) ==
    \/ RawRaises(raw)
    \/ \E i \in 1..Len(raw.callbacks) : RawRaises(raw.callbacks[i].op)

\* The Operation stored at lines 588-594.
parsed_operation(raw, path_name, method) ==
    Operation(raw.operationId, temporary_operation(raw),
              callbacks_of(temporary_operation(raw), raw.callbacks),
              path_name, method_at_end(raw, method))

\* resolved_path: one key for each (path, verb) of the document.
resolved_path(path_name, method) == <<path_name, method>>

\* A variant that files an operation with an explicit operationId under that
\* id, so that a later operation with the same id replaces it.
parse_operation_keyed_by_id(ops, raw, path_name, method) ==
    LET key == IF raw.operationId # None THEN <<raw.operationId, None>>
               ELSE resolved_path(path_name, method)
    IN  [k \in DOMAIN ops \cup {key} |->
            IF k = key THEN parsed_operation(raw, path_name, method) ELSE ops[k]]

\* A variant that does not start an operation with an empty parameter list:
\* the arguments of an operation parsed earlier are still in the list.
parse_operation_keeping_parameters(ops, raw, path_name, method) ==
    LET own == parsed_operation(raw, path_name, method)
        earlier == IF DOMAIN ops = {} THEN <<>>
                   ELSE ops[CHOOSE k \in DOMAIN ops : TRUE].arguments_list
    IN  [k \in DOMAIN ops \cup {resolved_path(path_name, method)} |->
            IF k = resolved_path(path_name, method)
            THEN [own EXCEPT !.arguments_list = earlier \o own.arguments_list]
            ELSE ops[k]]

\* self.operations after the call
parse_operation(ops, raw, path_name, method) ==
    [k \in DOMAIN ops \cup {resolved_path(path_name, method)} |->
        IF k = resolved_path(path_name, method)
        THEN parsed_operation(raw, path_name, method)
        ELSE ops[k]]

----------------------------------------------------------------------------
(* Inputs *)

SeqsUpTo(S, n) == UNION {[1..k -> S] : k \in 0..n}

NameA == <<"a">>
NameBody == <<"b","o","d","y">>

\* The hint the resolver's field renders for a parameter: a plain hint for a
\* required field; for an optional one "Optional[...]", or "None" when the
\* schema resolves to no value type.  Line 419 reads whether it starts with
\* "Optional[".
Schema(has_default, type_hint) ==
    [present |-> TRUE, has_default |-> has_default,
     default |-> IF has_default THEN <<"10">> ELSE None, type_hint |-> type_hint]

MissingSchema == [present |-> FALSE, has_default |-> FALSE, default |-> None, type_hint |-> None]

ParameterShapes ==
    {[required |-> TRUE, schema |-> Schema(FALSE, <<"str">>)],
     [required |-> TRUE, schema |-> Schema(FALSE, <<"int">>)],
     [required |-> TRUE, schema |-> Schema(TRUE, <<"int">>)],
     [required |-> FALSE, schema |-> Schema(FALSE, <<"Optional[", "int", "]">>)],
     [required |-> FALSE, schema |-> Schema(FALSE, <<"None">>)],
     [required |-> FALSE, schema |-> Schema(TRUE, <<"Optional[", "int", "]">>)]}

ArgumentParameters ==
    {[name |-> n, in_ |-> "query", required |-> s.required, schema |-> s.schema] :
        n \in {NameA, NameBody}, s \in ParameterShapes}

JsonBody(required) ==
    [present |-> TRUE, required |-> required,
     content |-> <<[media_type |-> "application/json", has_schema |-> TRUE,
                    type_hint |-> <<"Pet">>]>>]

RequestBodies == {NoRequestBody, JsonBody(TRUE), JsonBody(FALSE)}

StatusCodes == {"200", "201", "404"}
ResponseContents == {<<>>, <<<<"Pet">>>>, <<<<"Error">>>>, <<<<"Pet">>, <<"Error">>>>}

DataTypes ==
    {d \in SeqsUpTo([status_code : StatusCodes, contents : ResponseContents], MaxStatuses) :
        \A i, j \in 1..Len(d) : d[i].status_code = d[j].status_code => i = j}

Responses(data_types) == [present |-> TRUE, data_types |-> data_types]

OkResponses == Responses(<<[status_code |-> "200", contents |-> <<<<"Pet">>>>]>>)

RawOperation(operationId, parameters, requestBody, responses, callbacks) ==
    [operationId |-> operationId, parameters |-> parameters, requestBody |-> requestBody,
     responses |-> responses, callbacks |-> callbacks]

\* One operation, every parameter list and request body.
ArgumentRawOperations ==
    {RawOperation(None, ps, b, OkResponses, <<>>) :
        ps \in SeqsUpTo(ArgumentParameters, MaxParams), b \in RequestBodies}

\* One operation, every responses map.
ResponseRawOperations ==
    {RawOperation(None, <<>>, NoRequestBody, r, <<>>) :
        r \in {NoResponses} \cup {Responses(d) : d \in DataTypes}}

PathA == <<"/", "a">>
MethodGet == <<"g","e","t">>
MethodPost == <<"p","o","s","t">>

----------------------------------------------------------------------------
(* Actions *)

Init ==
    /\ operations = <<>>
    /\ reads = <<>>
    /\ parse_log = <<>>
    /\ failed = FALSE
    /\ all_tags = {}
    /\ files = <<>>
    /\ runs = <<>>
    /\ edits = 0
    /\ parse_input = <<>>
    /\ processed_models = <<>>
    /\ module_results = <<>>

\* One parse_operation call of the document parse.
ParseOperation(raw, path_name, method) ==
    /\ ~failed
    /\ resolved_path(path_name, method) \notin DOMAIN operations
    /\ IF parse_operation_raises(raw)
       THEN /\ failed' = TRUE
            /\ UNCHANGED <<operations, parse_log>>
       ELSE /\ operations' = parse_operation(operations, raw, path_name, method)
            /\ parse_log' = Append(parse_log,
                  [key |-> resolved_path(path_name, method), path_name |-> path_name,
                   method |-> method, raw |-> raw])
            /\ UNCHANGED failed
    /\ UNCHANGED reads
    /\ UNCHANGED generate_vars
    /\ UNCHANGED partition_vars

\* A template reads operation.arguments.
ReadArguments(key) ==
    /\ key \in DOMAIN operations
    /\ Len(reads) < MaxReads
    /\ reads' = Append(reads, [key |-> key, property |-> "arguments",
                               text |-> arguments_text(operations[key].arguments_list)])
    /\ operations' = [operations EXCEPT
           ![key].arguments_list = arguments_after_merge(@)]
    /\ UNCHANGED <<parse_log, failed>>
    /\ UNCHANGED generate_vars
    /\ UNCHANGED partition_vars

\* A template reads operation.snake_case_arguments.
ReadSnakeCaseArguments(key) ==
    /\ key \in DOMAIN operations
    /\ Len(reads) < MaxReads
    /\ reads' = Append(reads, [key |-> key, property |-> "snake_case_arguments",
                               text |-> snake_case_arguments_text(operations[key].arguments_list)])
    /\ operations' = [operations EXCEPT
           ![key].arguments_list = arguments_after_merge(@)]
    /\ UNCHANGED <<parse_log, failed>>
    /\ UNCHANGED generate_vars
    /\ UNCHANGED partition_vars

\* The Argument Builder and the Union Merge pass on one operation.
ParseArguments == \E raw \in ArgumentRawOperations : ParseOperation(raw, PathA, MethodGet)

NextArguments ==
    \/ ParseArguments
    \/ \E key \in DOMAIN operations : ReadArguments(key)
    \/ \E key \in DOMAIN operations : ReadSnakeCaseArguments(key)

SpecArguments == Init /\ [][NextArguments]_vars

\* Response resolution on one operation.
ParseResponses == \E raw \in ResponseRawOperations : ParseOperation(raw, PathA, MethodGet)

NextResponses == ParseResponses

SpecResponses == Init /\ [][NextResponses]_vars

----------------------------------------------------------------------------
(* The document parse: several operations, callbacks, operation ids *)

PathPlaceholder == <<"/", "i", "/", "{", "d", "}">>
PathLiteral == <<"/", "i", "/", "d">>

\* The (path, verb) pairs of the document.
DocumentKeys ==
    {<<PathPlaceholder, MethodGet>>, <<PathLiteral, MethodGet>>, <<PathLiteral, MethodPost>>}

IdX == <<"x">>
IdC == <<"c">>

\* The callback routes a document may declare, in the order of the document:
\* two routes under key k, one under key j.
CallbackSlots ==
    <<[key |-> <<"k">>, route |-> <<"/", "r">>, method |-> MethodPost],
      [key |-> <<"k">>, route |-> <<"/", "s">>, method |-> MethodPost],
      [key |-> <<"j">>, route |-> <<"/", "r">>, method |-> <<"p","u","t">>]>>

MaxCallbacks == 2

CallbackOperation(operationId) ==
    RawOperation(operationId, <<>>, NoRequestBody, NoResponses, <<>>)

\* Every choice of at most MaxCallbacks of the slots, each with or without
\* an operationId of its own.
CallbackBlocks ==
    {[i \in 1..Len(slots) |->
        [key |-> CallbackSlots[slots[i]].key, route |-> CallbackSlots[slots[i]].route,
         method |-> CallbackSlots[slots[i]].method, op |-> CallbackOperation(ids[i])]] :
        <<slots, ids>> \in
            {<<sl, id>> \in SeqsUpTo(1..Len(CallbackSlots), MaxCallbacks)
                            \X SeqsUpTo({None, IdC}, MaxCallbacks) :
                /\ Len(sl) = Len(id)
                /\ \A a, b \in 1..Len(sl) : a < b => sl[a] < sl[b]}}

\* A parameter with neither schema nor content schema.
SchemalessParameter ==
    [name |-> NameA, in_ |-> "query", required |-> FALSE, schema |-> MissingSchema]

DocumentRawOperations ==
    {RawOperation(None, <<>>, NoRequestBody, OkResponses, cbs) : cbs \in CallbackBlocks}
    \cup {RawOperation(IdX, <<>>, NoRequestBody, OkResponses, <<>>),
          RawOperation(None, <<SchemalessParameter>>, NoRequestBody, OkResponses, <<>>)}

ParseDocumentOperation ==
    /\ Len(parse_log) < MaxOperations
    /\ \E key \in DocumentKeys, raw \in DocumentRawOperations :
           ParseOperation(raw, key[1], key[2])

NextDocument == ParseDocumentOperation

SpecDocument == Init /\ [][NextDocument]_vars

\* The callback Operations of a stored Operation, in the order they were built.
FlatCallbacks(op) == Concat([k \in 1..Len(op.callbacks) |-> op.callbacks[k].operations])

----------------------------------------------------------------------------
(* Request bodies: several media types *)

MaxMedia == 2

MediaTypes ==
    {"application/json", "application/vnd.api+json", "application/x-www-form-urlencoded",
     "application/octet-stream", "multipart/form-data", "text/plain"}

\* A media object of request_body.content; has_schema tells whether its
\* schema is a schema object or a reference (line 440).
MediaObjects ==
    {[media_type |-> t, has_schema |-> h, type_hint |-> <<"Pet">>] :
        t \in MediaTypes, h \in BOOLEAN}

\* The content dicts: each media type at most once, in declaration order.
MediaContents ==
    {c \in SeqsUpTo(MediaObjects, MaxMedia) :
        \A i, j \in 1..Len(c) : c[i].media_type = c[j].media_type => i = j}

MediaRawOperations ==
    {RawOperation(None, <<>>, [present |-> TRUE, required |-> r, content |-> c],
                  OkResponses, <<>>) :
        r \in BOOLEAN, c \in MediaContents}

ParseRequestBody == \E raw \in MediaRawOperations : ParseOperation(raw, PathA, MethodPost)

NextRequestBody == ParseRequestBody

SpecRequestBody == Init /\ [][NextRequestBody]_vars

----------------------------------------------------------------------------
(* Parameters: names that normalisation changes, locations *)

NameItemId == <<"i","t","e","m","I","d">>
NameLimit == <<"l","i","m","i","t">>

PathItems == <<"/", "i", "/", "{", "i","t","e","m","I","d", "}">>

\* parameters.in_; "none" is a parameter object without `in`.
Locations == {"path", "query", "none"}

\* field.type_hint of line 384: the resolver's field renders the plain hint
\* for a required field and wraps it in Optional[...] otherwise.
field_type_hint(base, required) ==
    IF required THEN <<base>> ELSE <<"Optional[", base, "]">>

\* itemId is a string, limit an integer; each with or without `required`
\* and with or without a schema default.
LocatedParameters ==
    {[name |-> n, in_ |-> l, required |-> r,
      schema |-> Schema(d, field_type_hint(IF n = NameItemId THEN "str" ELSE "int",
                                           r \/ l = "path"))] :
        n \in {NameItemId, NameLimit}, l \in Locations, r \in BOOLEAN, d \in BOOLEAN}

LocatedRawOperations ==
    {RawOperation(None, ps, NoRequestBody, OkResponses, <<>>) :
        ps \in SeqsUpTo(LocatedParameters, MaxParams)}

ParseParameters == \E raw \in LocatedRawOperations : ParseOperation(raw, PathItems, MethodGet)

NextParameters ==
    \/ ParseParameters
    \/ \E key \in DOMAIN operations : ReadSnakeCaseArguments(key)

SpecParameters == Init /\ [][NextParameters]_vars

----------------------------------------------------------------------------
(* Sibling operations: two operations of one path, each with its parameters *)

NameFilter == <<"f","i","l","t","e","r">>

\* A required query parameter `filter`, a string or an integer.
FilterParameters ==
    {[name |-> NameFilter, in_ |-> "query", required |-> TRUE,
      schema |-> Schema(FALSE, field_type_hint(t, TRUE))] : t \in {"str", "int"}}

SiblingKeys == {<<PathA, MethodGet>>, <<PathA, MethodPost>>}

SiblingRawOperations ==
    {RawOperation(None, ps, NoRequestBody, OkResponses, <<>>) :
        ps \in SeqsUpTo(FilterParameters, MaxParams)}

ParseSibling ==
    /\ Len(parse_log) < MaxOperations
    /\ \E key \in SiblingKeys, raw \in SiblingRawOperations :
           ParseOperation(raw, key[1], key[2])

NextSiblings ==
    \/ ParseSibling
    \/ \E key \in DOMAIN operations : ReadArguments(key)

SpecSiblings == Init /\ [][NextSiblings]_vars

----------------------------------------------------------------------------
(* Operations and callbacks that each fill the parser's scratch dict *)

\* A callback operation with a parameter, a request body and a response of
\* its own, none of which its parent has.
FullCallbackOperation ==
    RawOperation(None,
        <<[name |-> NameLimit, in_ |-> "query", required |-> TRUE,
           schema |-> Schema(FALSE, <<"int">>)]>>,
        [present |-> TRUE, required |-> TRUE,
         content |-> <<[media_type |-> "multipart/form-data", has_schema |-> TRUE,
                        type_hint |-> <<"UploadFile">>]>>],
        Responses(<<[status_code |-> "404", contents |-> <<<<"Error">>>>]>>), <<>>)

\* At most MaxCallbacks callbacks under the first slots, each one bare or
\* full.
ScratchCallbacks ==
    {[i \in 1..Len(ops) |->
         [key |-> CallbackSlots[i].key, route |-> CallbackSlots[i].route,
          method |-> CallbackSlots[i].method, op |-> ops[i]]] :
        ops \in SeqsUpTo({CallbackOperation(None), FullCallbackOperation}, MaxCallbacks)}

\* A parent with nothing, with a parameter and a response, or with a
\* parameter, a JSON body and a response.
ScratchRawOperations ==
    {RawOperation(None, parent[1], parent[2], parent[3], cbs) :
        parent \in {<<<<>>, NoRequestBody, NoResponses>>,
                    <<<<[name |-> NameA, in_ |-> "query", required |-> TRUE,
                         schema |-> Schema(FALSE, <<"str">>)]>>,
                      NoRequestBody, OkResponses>>,
                    <<<<[name |-> NameA, in_ |-> "query", required |-> TRUE,
                         schema |-> Schema(FALSE, <<"str">>)]>>,
                      JsonBody(TRUE), OkResponses>>},
        cbs \in ScratchCallbacks}

ParseWithScratch ==
    /\ Len(parse_log) < MaxOperations
    /\ \E key \in SiblingKeys, raw \in ScratchRawOperations :
           ParseOperation(raw, key[1], key[2])

NextScratch == ParseWithScratch

SpecScratch == Init /\ [][NextScratch]_vars

----------------------------------------------------------------------------
(* visitors/operations.py: get_operations *)

\* The characters of a path or a tag in the order of their code points.
CodePointOrder ==
    <<" ", "-", ".", "/">> \o DigitSeq \o UpperSeq \o <<"_">> \o LowerSeq \o <<"{", "}">>

ord(c) == CHOOSE i \in 1..Len(CodePointOrder) : CodePointOrder[i] = c

RECURSIVE str_lt(_, _)
\* a < b for two str values
str_lt(a, b) ==
    IF b = <<>> THEN FALSE
    ELSE IF a = <<>> THEN TRUE
    ELSE IF a[1] # b[1] THEN ord(a[1]) < ord(b[1])
    ELSE str_lt(Tail(a), Tail(b))

\* parser.operations.values(): the stored operations in insertion order.
operations_values ==
    [i \in 1..Len(parse_log) |-> operations[parse_log[i].key]]

RECURSIVE get_operations_ties_reversed(_)
\* A variant whose sort puts an operation in front of the earlier ones of
\* the same path.
get_operations_ties_reversed(values) ==
    IF values = <<>> THEN <<>>
    ELSE LET init == get_operations_ties_reversed(SubSeq(values, 1, Len(values) - 1))
             m == values[Len(values)]
             k == Cardinality({i \in 1..Len(init) : str_lt(init[i].path, m.path)})
         IN  SubSeq(init, 1, k) \o <<m>> \o SubSeq(init, k + 1, Len(init))

RECURSIVE get_operations(_)
\* sorted(values, key=lambda m: m.path): a stable sort, so an operation goes
\* behind every earlier one whose path is not greater.
get_operations(values) ==
    IF values = <<>> THEN <<>>
    ELSE LET init == get_operations(SubSeq(values, 1, Len(values) - 1))
             m == values[Len(values)]
             k == Cardinality({i \in 1..Len(init) : ~str_lt(m.path, init[i].path)})
         IN  SubSeq(init, 1, k) \o <<m>> \o SubSeq(init, k + 1, Len(init))

----------------------------------------------------------------------------
(* __main__.py: tags and router names *)

RECURSIVE lstrip(_)
lstrip(text) == IF text # <<>> /\ text[1] = " " THEN lstrip(Tail(text)) ELSE text

RECURSIVE rstrip(_)
rstrip(text) ==
    IF text # <<>> /\ text[Len(text)] = " " THEN rstrip(SubSeq(text, 1, Len(text) - 1))
    ELSE text

\* str.strip()
strip(text) == rstrip(lstrip(text))

\* str.lower()
lower(text) == [i \in 1..Len(text) |-> lowercase(text[i])]

\* A variant of the pattern without " " in its second look-behind.
TitleBoundaryBehindSpace(text, i) ==
    /\ i > 1
    /\ ~IsUpper(text[i - 1])
    /\ IsUpper(text[i])

\* TITLE_PATTERN matches the empty text in front of text[i]: not at the
\* start, not behind a capital or a space, in front of a capital.
TitleBoundary(text, i) ==
    /\ i > 1
    /\ ~IsUpper(text[i - 1]) /\ text[i - 1] # " "
    /\ IsUpper(text[i])

\* re.sub(TITLE_PATTERN, '_', text): "_" at every boundary, "_" for every
\* space.
title_sub(text) ==
    Concat([i \in 1..Len(text) |->
               IF text[i] = " " THEN <<"_">>
               ELSE IF TitleBoundary(text, i) THEN <<"_", text[i]>>
               ELSE <<text[i]>>])

\* re.sub(TITLE_PATTERN, '_', tag.strip()).lower() of line 194
router_name(tag) == lower(title_sub(strip(tag)))

RECURSIVE sorted_by_lower(_)
\* sorted(set(...), key=lambda x: x.lower())
sorted_by_lower(tags) ==
    IF tags = {} THEN <<>>
    ELSE LET first == CHOOSE t \in tags :
                          \A u \in tags : ~str_lt(lower(u), lower(t))
         IN  <<first>> \o sorted_by_lower(tags \ {first})

RECURSIVE sorted(_)
\* sorted(list of str)
sorted(names) ==
    IF names = <<>> THEN <<>>
    ELSE LET init == sorted(SubSeq(names, 1, Len(names) - 1))
             x == names[Len(names)]
             k == Cardinality({i \in 1..Len(init) : ~str_lt(x, init[i])})
         IN  SubSeq(init, 1, k) \o <<x>> \o SubSeq(init, k + 1, Len(init))

----------------------------------------------------------------------------
(* __main__.py: generate_code *)

MaxRuns == 3
MaxEdits == 1

TagAb == <<"a","b">>
TagAZ == <<"a","Z">>
TagWB == <<"W"," ","B">>
TagAPi == <<" ","A","P","i"," ">>

\* A document is known by its name and by the tags of its operations.
Documents ==
    {[name |-> "a.yaml", tags |-> {TagAb, TagAZ}],
     [name |-> "b.yaml", tags |-> {TagWB, TagAPi}]}

\* specify_tags, already split at ","; <<>> when the option is not given.
SpecifyTags == {<<>>, <<TagAb>>, <<TagWB>>}

\* The paths generate_code writes under output_dir.
MainPy == [dir |-> "", name |-> <<"m","a","i","n">>]
DependenciesPy == [dir |-> "", name |-> <<"d","e","p","e","n","d","e","n","c","i","e","s">>]
ModelsPy == [dir |-> "", name |-> <<"m","o","d","e","l","s">>]
RouterPy(router) == [dir |-> "routers", name |-> router]

\* template.render(template_vars): the text of a template is known by the
\* template and the variables it is rendered with.
render(template, document, routers, tags, tag) ==
    [template |-> template, document |-> document.name, routers |-> routers,
     tags |-> tags, tag |-> tag]

\* What a hand edit leaves in a file.
HandEdited ==
    [template |-> "hand edit", document |-> "", routers |-> <<>>, tags |-> <<>>,
     tag |-> <<>>]

\* "app.include_router" in content: the modular main template has one such
\* line for each router.
ContainsIncludeRouter(content) == content.template = "main" /\ content.routers # <<>>

\* all_tags after lines 185-190
all_tags_after(tags_before, document, generate_routers) ==
    IF generate_routers THEN tags_before \cup document.tags ELSE tags_before

\* `tags` of lines 205-214: the tags whose units are rendered anew.
requested_tags(output, sorted_tags, specify_tags) ==
    IF /\ specify_tags # <<>>
       /\ MainPy \in DOMAIN output
       /\ ContainsIncludeRouter(output[MainPy])
    THEN {strip(specify_tags[i]) : i \in 1..Len(specify_tags)}
    ELSE {sorted_tags[i] : i \in 1..Len(sorted_tags)}

\* The condition of lines 219-224 for one (router, tag) of the zip.
RouterIsRendered(output, router, tag, tags) ==
    RouterPy(router) \notin DOMAIN output \/ tag \in tags

\* `results` at line 238: path -> code.
results_of(output, tags_before, document, generate_routers, specify_tags) ==
    LET sorted_tags == sorted_by_lower(all_tags_after(tags_before, document, generate_routers))
        routers == sorted([i \in 1..Len(sorted_tags) |-> router_name(sorted_tags[i])])
        tags == requested_tags(output, sorted_tags, specify_tags)
        rendered == {i \in 1..Len(routers) :
                        RouterIsRendered(output, routers[i], sorted_tags[i], tags)}
        last(router) == CHOOSE i \in rendered :
                            /\ routers[i] = router
                            /\ \A j \in rendered : routers[j] = router => j <= i
        templates == IF generate_routers THEN {MainPy, DependenciesPy} ELSE {MainPy}
    IN  [path \in templates \cup
                  (IF generate_routers THEN {RouterPy(routers[i]) : i \in rendered} ELSE {}) |->
            IF path = MainPy THEN render("main", document, routers, sorted_tags, <<>>)
            ELSE IF path = DependenciesPy
            THEN render("dependencies", document, routers, sorted_tags, <<>>)
            ELSE render("routers", document, routers, sorted_tags,
                        strip(sorted_tags[last(path.name)]))]

\* The files of output_dir after the writes of lines 238-267.
written_files(output, results, document) ==
    [path \in DOMAIN output \cup DOMAIN results \cup {ModelsPy} |->
        IF path \in DOMAIN results THEN results[path]
        ELSE IF path = ModelsPy THEN render("models", document, <<>>, <<>>, <<>>)
        ELSE output[path]]

\* The order in which generate_code writes before everything is rendered.
generate_code_steps_writing_first ==
    <<"parse", "modules", "load visitors", "call visitors", "collect tags",
      "write", "render">>

\* The steps of generate_code in the order of its statements: parser.parse()
\* (147), the check of what the parse returned (149-155), the loading of the
\* visitor modules (171-178), the calls of the visitors (181-183), the
\* collection of the tags (185-196), the rendering of the templates and of the
\* router units (198-229), the writes (238-267).
generate_code_steps ==
    <<"parse", "modules", "load visitors", "call visitors", "collect tags",
      "render", "write">>

\* The steps that can raise: the parse (an unresolvable reference), the check
\* of line 155 (a modular result), a visitor module without `visit` (178), a
\* visitor that raises (182), a template that fails to render (201, 227).
RaisingSteps == {"parse", "modules", "load visitors", "call visitors", "render"}

\* The steps a call starts: all of them up to the first one that raises.
steps_started(conditions) ==
    LET raising == {i \in 1..Len(generate_code_steps) :
                       generate_code_steps[i] \in conditions}
        stop == IF raising = {} THEN Len(generate_code_steps)
                ELSE CHOOSE i \in raising : \A j \in raising : i <= j
    IN  SubSeq(generate_code_steps, 1, stop)

\* The step whose exception leaves generate_code, "" when it returns.
step_raised(conditions) ==
    LET started == steps_started(conditions)
    IN  IF started[Len(started)] \in conditions THEN started[Len(started)] ELSE ""

\* The step ran to its end.
step_completed(conditions, step) ==
    /\ \E i \in 1..Len(steps_started(conditions)) : steps_started(conditions)[i] = step
    /\ step # step_raised(conditions)

\* One call of generate_code on the current output directory; `conditions`
\* are the steps that raise on this input.
GenerateCode(document, generate_routers, specify_tags, conditions) ==
    LET results == results_of(files, all_tags, document, generate_routers, specify_tags)
        tags_after == IF step_completed(conditions, "collect tags")
                      THEN all_tags_after(all_tags, document, generate_routers)
                      ELSE all_tags
        files_after == IF step_completed(conditions, "write")
                       THEN written_files(files, results, document)
                       ELSE files
    IN  /\ Len(runs) < MaxRuns
        /\ all_tags' = tags_after
        /\ files' = files_after
        /\ runs' = Append(runs,
               [document |-> document, generate_routers |-> generate_routers,
                specify_tags |-> specify_tags, before |-> files,
                tags |-> sorted_by_lower(tags_after),
                routers |-> sorted([i \in 1..Len(sorted_by_lower(tags_after)) |->
                                       router_name(sorted_by_lower(tags_after)[i])]),
                written |-> IF step_completed(conditions, "write")
                            THEN DOMAIN results \cup {ModelsPy} ELSE {},
                after |-> files_after,
                conditions |-> conditions,
                started |-> steps_started(conditions),
                raised |-> step_raised(conditions)])
        /\ UNCHANGED edits
        /\ UNCHANGED parser_vars
        /\ UNCHANGED partition_vars

\* The user edits a generated file by hand.
HandEdit(path) ==
    /\ edits < MaxEdits
    /\ path \in DOMAIN files
    /\ path \in {MainPy} \cup {q \in DOMAIN files : q.dir = "routers"}
    /\ files[path] # HandEdited
    /\ files' = [files EXCEPT ![path] = HandEdited]
    /\ edits' = edits + 1
    /\ UNCHANGED <<all_tags, runs>>
    /\ UNCHANGED parser_vars
    /\ UNCHANGED partition_vars

\* The options of a call: specify_tags goes with generate_routers.
GenerateOptions ==
    {<<FALSE, <<>>>>} \cup {<<TRUE, specify_tags>> : specify_tags \in SpecifyTags}

NextGenerate ==
    \/ \E document \in Documents, options \in GenerateOptions :
           GenerateCode(document, options[1], options[2], {})
    \/ \E path \in DOMAIN files : HandEdit(path)

SpecGenerate == Init /\ [][NextGenerate]_vars

\* Calls of generate_code on inputs that make a step raise.
MaxFailingRuns == 2

FaultConditions ==
    {{}} \cup {{step} : step \in RaisingSteps}
         \cup {{"parse", "load visitors"}, {"load visitors", "call visitors"},
               {"load visitors", "render"}}

NextFailures ==
    \E document \in Documents, conditions \in FaultConditions :
        /\ Len(runs) < MaxFailingRuns
        /\ GenerateCode(document, TRUE, <<>>, conditions)

SpecFailures == Init /\ [][NextFailures]_vars

----------------------------------------------------------------------------
(* __init__.py and patches.py: the patched Parser.parse.  A module path is a
   tuple of parts, a part a text; a data model is known by its module path,
   its class name, its fields (name, type name, import record of the type)
   and its imports. *)

InitPy == <<"__init__.py">>

\* The import record of a field's type: absent, or present with its alias.
NoImport == [present |-> FALSE, alias |-> None]
PlainImport == [present |-> TRUE, alias |-> None]

\* The two copies of patch_parse in the package: the one __init__.py installs
\* when the package is imported, and the one of patches.py.
Patches == {"__init__", "patches"}

\* Lines 17-27 of __init__.py, 19-30 of patches.py, for one field: a type
\* named like a field of the module gets the suffix, and so does the alias
\* of its import record.
alias_shadowed_field(field, all_model_field_names) ==
    IF field.type \in all_model_field_names
    THEN [field EXCEPT
             !.type = @ \o <<"_aliased">>,
             !.import_ = IF @.present THEN [@ EXCEPT !.alias = field.type \o <<"_aliased">>]
                         ELSE @]
    ELSE field

\* __alias_shadowed_imports(models, all_model_field_names)
alias_shadowed_imports(models, all_model_field_names) ==
    [m \in 1..Len(models) |->
        [models[m] EXCEPT
            !.fields = [f \in 1..Len(@) |->
                           alias_shadowed_field(@[f], all_model_field_names)]]]

\* __init__.py line 27 assigns to import_.alias without the test of
\* patches.py line 29: a shadowed type without import record raises.
alias_shadowed_imports_raises(models, all_model_field_names, patch) ==
    /\ patch = "__init__"
    /\ \E m \in 1..Len(models) : \E f \in 1..Len(models[m].fields) :
           /\ models[m].fields[f].type \in all_model_field_names
           /\ ~models[m].fields[f].import_.present

\* all_module_fields of line 120 (132-137 in patches.py)
all_module_fields(models) ==
    UNION {{models[m].fields[f].name : f \in 1..Len(models[m].fields)} :
              m \in 1..Len(models)}

RECURSIVE tuple_lt(_, _)
\* a < b for two tuples of str
tuple_lt(a, b) ==
    IF b = <<>> THEN FALSE
    ELSE IF a = <<>> THEN TRUE
    ELSE IF a[1] # b[1] THEN str_lt(a[1], b[1])
    ELSE tuple_lt(Tail(a), Tail(b))

\* sort_key(a) < sort_key(b): (len(module_path), module_path)
sort_key_lt(a, b) == Len(a) < Len(b) \/ (Len(a) = Len(b) /\ tuple_lt(a, b))

RECURSIVE modules_descending(_)
\* The module paths in the order of sorted(..., key=sort_key, reverse=True).
modules_descending(paths) ==
    IF paths = {} THEN <<>>
    ELSE LET first == CHOOSE p \in paths : \A q \in paths : ~sort_key_lt(p, q)
         IN  <<first>> \o modules_descending(paths \ {first})

\* grouped_models: one (module, models) for each module path, deepest first.
grouped_models(models) ==
    LET paths == modules_descending({models[m].module_path : m \in 1..Len(models)})
    IN  [g \in 1..Len(paths) |->
            [module |-> paths[g],
             models |-> SelectSeq(models, LAMBDA model : model.module_path = paths[g])]]

\* Lines 82-89: the empty modules previous_module[:parts] for parts from
\* len(previous_module) - 1 down to len(module) + 1.
fillers(previous_module, module) ==
    IF Len(previous_module) - Len(module) > 1
    THEN [n \in 1..(Len(previous_module) - 1 - Len(module)) |->
             [module |-> SubSeq(previous_module, 1, Len(previous_module) - n),
              models |-> <<>>]]
    ELSE <<>>

\* module_models after the loop of lines 76-94; previous_module starts as ().
module_models_of(groups) ==
    Concat([g \in 1..Len(groups) |->
               fillers(IF g = 1 THEN <<>> ELSE groups[g - 1].module, groups[g].module)
               \o <<groups[g]>>])

\* part.replace("-", "_")
replace_hyphen(part) ==
    [i \in 1..Len(part) |-> IF part[i] = "-" THEN "_" ELSE part[i]]

\* parent of line 109
parent_of(module_) == SubSeq(module_, 1, Len(module_) - 1) \o <<InitPy>>

RECURSIVE placeholders(_, _)
\* The keys of `results` when the loop of lines 105-137 has passed line 111
\* for the i-th entry of module_models.
placeholders(entries, i) ==
    IF i = 0 THEN {}
    ELSE placeholders(entries, i - 1)
         \cup (IF entries[i].module # <<>> THEN {parent_of(entries[i].module)} ELSE {})

\* init of lines 107-114
is_init(entries, i) ==
    /\ entries[i].module # <<>>
    /\ (entries[i].module \o <<InitPy>>) \in placeholders(entries, i)

\* module of lines 112-118
output_module(entries, i) ==
    LET module_ == entries[i].module
    IN  IF module_ = <<>> THEN <<InitPy>>
        ELSE IF is_init(entries, i) THEN module_ \o <<InitPy>>
        ELSE [k \in 1..Len(module_) |->
                 IF k = Len(module_) THEN replace_hyphen(module_[k] \o <<".py">>)
                 ELSE replace_hyphen(module_[k])]

\* str(model): the declaration names the class, its fields and their types.
model_text(model) ==
    <<"class", " ">> \o model.class_name \o <<":">>
    \o Concat([f \in 1..Len(model.fields) |->
                  <<" ">> \o model.fields[f].name \o <<":", " ">> \o model.fields[f].type])

\* model_code of line 152
model_code(models) ==
    Join([m \in 1..Len(models) |-> model_text(models[m])], <<"\n">>)

\* Python `piece in text` for two str values
IsSubstring(piece, text) ==
    \E i \in 0..(Len(text) - Len(piece)) : SubSeq(text, i + 1, i + Len(piece)) = piece

\* The imports of a module when line 141 has appended those of each of its
\* models and lines 143-148 have removed those of its unused models.
imports_of_models(models, unused_models) ==
    UNION {models[m].imports : m \in 1..Len(models)}
    \ UNION {models[m].imports :
                m \in {k \in 1..Len(models) : models[k].class_name \in unused_models}}

\* The models of a module when lines 143-148 have removed the unused ones.
models_in_use(models, unused_models) ==
    SelectSeq(models, LAMBDA model : model.class_name \notin unused_models)

\* A variant of the pass that tests the imports against the text of all the
\* models the module had, the unused ones too.
unused_imports_by_all_models(imports, remaining, models) ==
    {import \in imports : ~IsSubstring(import.import_, model_code(models))}

\* unused_imports of lines 153-158: `remaining` are the models left in the
\* module, `models` those it had before lines 143-148.
unused_imports(imports, remaining, models) ==
    {import \in imports : ~IsSubstring(import.import_, model_code(remaining))}

\* Processed(module, models, init, imports, ...) for the i-th entry of
\* module_models, after the passes of lines 139-164.
processed_model(entries, i, unused_models) ==
    LET aliased == alias_shadowed_imports(entries[i].models,
                                          all_module_fields(entries[i].models))
        remaining == models_in_use(aliased, unused_models)
        imports == imports_of_models(aliased, unused_models)
    IN  [module |-> output_module(entries, i),
         models |-> remaining,
         init |-> is_init(entries, i),
         imports |-> imports \ unused_imports(imports, remaining, aliased)]

\* The patched parse raises: in the alias step (see above), or at line 160 of
\* __init__.py, which names Import without importing it, as soon as one
\* import is unused.
parse_raises(models, unused_models, patch) ==
    LET entries == module_models_of(grouped_models(models))
    IN  \E i \in 1..Len(entries) :
            \/ alias_shadowed_imports_raises(entries[i].models,
                   all_module_fields(entries[i].models), patch)
            \/ /\ patch = "__init__"
               /\ LET aliased == alias_shadowed_imports(entries[i].models,
                                     all_module_fields(entries[i].models))
                      imports == imports_of_models(aliased, unused_models)
                  IN  unused_imports(imports, models_in_use(aliased, unused_models),
                                     aliased) # {}

\* body of lines 167-184: the imports and the code of the models, "" for a
\* module without models.
body_of(processed) ==
    IF processed.models = <<>> THEN <<>>
    ELSE [imports |-> processed.imports, code |-> model_code(processed.models)]

\* `results` at line 190: the placeholders of line 111, then one entry for
\* each processed module that has models or is an __init__.py.
results_at_end(entries, processed) ==
    LET written == {i \in 1..Len(entries) :
                       processed[i].models # <<>> \/ processed[i].init}
        last(key) == CHOOSE i \in written :
                         /\ processed[i].module = key
                         /\ \A j \in written : processed[j].module = key => j <= i
    IN  [key \in placeholders(entries, Len(entries))
                 \cup {processed[i].module : i \in written} |->
            IF \E i \in written : processed[i].module = key
            THEN body_of(processed[last(key)])
            ELSE <<>>]

\* Lines 191-202: the body alone when the only key is ("__init__.py",),
\* else the map with "-" replaced in every part of every key.  No part of
\* the module paths drawn here has a "." of its own.
returned(results_) ==
    IF DOMAIN results_ = {<<InitPy>>}
    THEN [raised |-> FALSE, single |-> TRUE, body |-> results_[<<InitPy>>],
          modules |-> <<>>]
    ELSE [raised |-> FALSE, single |-> FALSE, body |-> <<>>,
          modules |->
              [key \in {[k \in 1..Len(q) |-> replace_hyphen(q[k])] : q \in DOMAIN results_} |->
                  results_[CHOOSE q \in DOMAIN results_ :
                               [k \in 1..Len(q) |-> replace_hyphen(q[k])] = key]]]

\* One call of the patched Parser.parse on the data models the parser holds;
\* unused_models are the models __collapse_root_models reports as unused.
Parse(models, unused_models, patch) ==
    LET entries == module_models_of(grouped_models(models))
        processed == [i \in 1..Len(entries) |-> processed_model(entries, i, unused_models)]
    IN  /\ parse_input = <<>>
        /\ parse_input' = [models |-> models, unused_models |-> unused_models,
                           patch |-> patch]
        /\ IF parse_raises(models, unused_models, patch)
           THEN /\ processed_models' = <<>>
                /\ module_results' = [raised |-> TRUE, single |-> FALSE, body |-> <<>>,
                                      modules |-> <<>>]
           ELSE /\ processed_models' = processed
                /\ module_results' = returned(results_at_end(entries, processed))
        /\ UNCHANGED parser_vars
        /\ UNCHANGED generate_vars

\* Module paths: a, a/b, a/b/c, a/c, d-e, d-e/b and the root.
PartA == <<"a">>
PartB == <<"b">>
PartC == <<"c">>
PartDE == <<"d", "-", "e">>

ModulePaths ==
    {<<>>, <<PartA>>, <<PartA, PartB>>, <<PartA, PartB, PartC>>, <<PartA, PartC>>,
     <<PartDE>>, <<PartDE, PartB>>}

TypePet == <<"P","e","t">>
FieldX == <<"x">>
FieldY == <<"y">>

\* A model with one field `y: Pet` and no import.
PlainModel(module_path, class_name) ==
    [module_path |-> module_path, class_name |-> class_name,
     fields |-> <<[name |-> FieldY, type |-> TypePet, import_ |-> NoImport]>>,
     imports |-> {}]

\* One model in each module of a set of module paths.
ModelsOfModules(paths) ==
    [m \in 1..Cardinality(paths) |->
        PlainModel(modules_descending(paths)[m], <<"M">> \o str(m))]

NextModules ==
    \E paths \in SUBSET ModulePaths \ {{}}, patch \in Patches :
        Parse(ModelsOfModules(paths), {}, patch)

SpecModules == Init /\ [][NextModules]_vars

\* One module whose fields are named x, y or x_aliased and typed x, y or
\* Pet, each type with or without an import record: one model with one or
\* two fields, or two models with one field each.
FieldXAliased == <<"x", "_aliased">>

AliasFields ==
    [name : {FieldX, FieldY, FieldXAliased}, type : {FieldX, FieldY, TypePet},
     import_ : {NoImport, PlainImport}]

AliasModel(class_name, fields) ==
    [module_path |-> <<>>, class_name |-> class_name, fields |-> fields, imports |-> {}]

AliasModels ==
    {<<AliasModel(<<"M", "1">>, <<f>>)>> : f \in AliasFields}
    \cup {<<AliasModel(<<"M", "1">>, <<f, g>>)>> :
              <<f, g>> \in {fg \in AliasFields \X AliasFields : fg[1].name # fg[2].name}}
    \cup {<<AliasModel(<<"M", "1">>, <<f>>), AliasModel(<<"M", "2">>, <<g>>)>> :
              f \in AliasFields, g \in AliasFields}

NextAliases ==
    \E models \in AliasModels, patch \in Patches : Parse(models, {}, patch)

SpecAliases == Init /\ [][NextAliases]_vars

\* Modules with imports: a model in the root module, alone or with a second
\* model in the root module or in a/b; each model has one field typed AnyUrl
\* or Pet and imports none, one or two of Any, Pet and List; any of the
\* models may be reported unused.
Typing(name) == [from_ |-> <<"t","y","p","i","n","g">>, import_ |-> name]
NameAny == <<"A","n","y">>
NameList == <<"L","i","s","t">>
TypeAnyUrl == <<"A","n","y","U","r","l">>

ImportSets ==
    {{}, {Typing(NameAny)}, {Typing(TypePet)}, {Typing(NameAny), Typing(NameList)}}

ImportingModel(module_path, class_name, type, imports) ==
    [module_path |-> module_path, class_name |-> class_name,
     fields |-> <<[name |-> FieldY, type |-> type, import_ |-> NoImport]>>,
     imports |-> imports]

ImportingModels ==
    {<<ImportingModel(<<>>, <<"M", "1">>, type, imports)>> :
        type \in {TypeAnyUrl, TypePet}, imports \in ImportSets}
    \cup {<<ImportingModel(<<>>, <<"M", "1">>, one[1], one[2]),
            ImportingModel(path, <<"M", "2">>, two[1], two[2])>> :
              one \in {TypeAnyUrl, TypePet} \X ImportSets,
              two \in {TypeAnyUrl, TypePet} \X ImportSets,
              path \in {<<>>, <<PartA, PartB>>}}

NextImports ==
    \E models \in ImportingModels, patch \in Patches :
        \E unused_models \in SUBSET {models[m].class_name : m \in 1..Len(models)} :
            Parse(models, unused_models, patch)

SpecImports == Init /\ [][NextImports]_vars

----------------------------------------------------------------------------
(* Claims *)

\* The argument list as get_argument_list returned it: before any read.
Unread == reads = <<>>

RendersWithDefault(arg) == Contains(argument(arg), " = ")

\* C1: in every argument list returned by get_argument_list, once some
\* argument renders with a default no later argument renders without one.
C1_SignatureOrderable ==
    \A key \in DOMAIN operations :
        LET args == operations[key].arguments_list
        IN  \A i, j \in 1..Len(args) :
                (i < j /\ RendersWithDefault(args[i])) => RendersWithDefault(args[j])

\* C2: the Union Merge pass is idempotent: merging the merged list returns
\* the same arguments, in the same order, with the same types.
C2_MergeIdempotent ==
    \A key \in DOMAIN operations :
        LET args == operations[key].arguments_list
        IN  merge_arguments_with_union(merge_arguments_with_union(args))
                = merge_arguments_with_union(args)

\* C2 witness: an operation whose list has two arguments of one name, which
\* the pass merges into one, and whose merged text a template has read.
C2_Witness ==
    \E key \in DOMAIN operations :
        LET args == operations[key].arguments_list
        IN  /\ Len(merge_arguments_with_union(args)) < Len(args)
            /\ \E i \in 1..Len(args) : args[i].field.kind = "list"
            /\ reads # <<>>

\* The type a member of a group contributes: what it renders as its type.
MemberTypes(arguments, name) ==
    LET idx == GroupIndexes(arguments, name)
    IN  DistinctInOrder([k \in 1..Len(idx) |-> rendered_type_hint(arguments[idx[k]])])

\* C3: for every group of two or more arguments sharing a name, the pass
\* returns the first member with its name, required flag and default, typed
\* with the union of the distinct member types in order of first appearance.
C3_UnionOfDistinctTypes ==
    \A key \in DOMAIN operations :
        LET args == operations[key].arguments_list
            merged == merge_arguments_with_union(args)
        IN  Unread =>
            \A n \in 1..Len(merged) :
                LET idx == GroupIndexes(args, merged[n].name)
                IN  Len(idx) >= 2 =>
                    /\ merged[n].name = args[idx[1]].name
                    /\ merged[n].required = args[idx[1]].required
                    /\ merged[n].default = args[idx[1]].default
                    /\ rendered_type_hint(merged[n]) =
                           <<"Union[">> \o Join(MemberTypes(args, merged[n].name), <<", ">>)
                           \o <<"]">>

\* C4: every read of Operation.arguments and of
\* Operation.snake_case_arguments returns the text the first read of that
\* property of that operation returned.
C4_ReadsStable ==
    \A i, j \in 1..Len(reads) :
        (reads[i].key = reads[j].key /\ reads[i].property = reads[j].property)
            => reads[i].text = reads[j].text

ExpressedAsOptional(type_hint) ==
    type_hint # <<>> /\ (type_hint[1] = "Optional[" \/ type_hint = <<"None">>)

\* C5: every Argument the Argument Builder produces with required = false
\* has a default or a type hint expressed as optional.
C5_OptionalHasDefaultOrOptionalType ==
    \A key \in DOMAIN operations :
        LET args == operations[key].arguments_list
        IN  \A i \in 1..Len(args) :
                ~args[i].required =>
                    (args[i].default # None \/ ExpressedAsOptional(args[i].type_hint))

\* The function name derived for a (method, path) pair without operationId.
DerivedName(entry) ==
    function_name([operationId |-> None, method |-> entry.method, path |-> entry.path_name])

\* C6: any two distinct (method, path) pairs without an explicit operationId
\* get different derived function names.
C6_FunctionNameInjective ==
    \A i, j \in 1..Len(parse_log) :
        (/\ i # j
         /\ parse_log[i].raw.operationId = None
         /\ parse_log[j].raw.operationId = None)
            => DerivedName(parse_log[i]) # DerivedName(parse_log[j])

\* The callbacks of the document that declare no operationId:
\* <<parse_operation call, position in its callback block>>.
SynthesizedCallbacks ==
    {c \in (1..Len(parse_log)) \X (1..Len(CallbackSlots)) :
        /\ c[2] <= Len(parse_log[c[1]].raw.callbacks)
        /\ parse_log[c[1]].raw.callbacks[c[2]].op.operationId = None}

StoredCallback(c) == FlatCallbacks(operations[parse_log[c[1]].key])[c[2]]

\* C7: across the whole document no two callbacks without operationId
\* receive the same synthesized id.
C7_SynthesizedIdsUnique ==
    \A c, d \in SynthesizedCallbacks :
        c # d => StoredCallback(c).operationId # StoredCallback(d).operationId

\* C8: within one operation's callback block the callbacks without
\* operationId get {method}_{key}_0, {method}_{key}_1, ... in iteration
\* order, and a callback with an operationId of its own keeps it and uses
\* up no number.
C8_SequenceNumbersInOrder ==
    \A p \in 1..Len(parse_log) :
        LET raw_callbacks == parse_log[p].raw.callbacks
            stored == FlatCallbacks(operations[parse_log[p].key])
            unnamed == SelectSeq([i \in 1..Len(raw_callbacks) |-> i],
                                 LAMBDA i : raw_callbacks[i].op.operationId = None)
        IN  /\ Len(stored) = Len(raw_callbacks)
            /\ \A n \in 1..Len(unnamed) :
                   stored[unnamed[n]].operationId =
                       raw_callbacks[unnamed[n]].method \o <<"_">>
                       \o raw_callbacks[unnamed[n]].key \o <<"_">> \o <<DigitSeq[n]>>
            /\ \A i \in 1..Len(raw_callbacks) :
                   raw_callbacks[i].op.operationId # None
                       => stored[i].operationId = raw_callbacks[i].op.operationId

\* C8 witness: a parsed operation whose callback block holds a callback with
\* an operationId of its own followed by one without, and another parsed
\* operation whose block holds two callbacks without operationId.
C8_Witness ==
    /\ \E p \in 1..Len(parse_log) :
           LET cbs == parse_log[p].raw.callbacks
           IN  /\ Len(cbs) = 2
               /\ cbs[1].op.operationId # None
               /\ cbs[2].op.operationId = None
               /\ FlatCallbacks(operations[parse_log[p].key])[2].operationId
                      = cbs[2].method \o <<"_">> \o cbs[2].key \o <<"_", "0">>
    /\ \E p \in 1..Len(parse_log) :
           LET cbs == parse_log[p].raw.callbacks
           IN  /\ Len(cbs) = 2
               /\ cbs[1].op.operationId = None
               /\ cbs[2].op.operationId = None

\* C9 as claimed: of the operations sharing one explicit operationId only
\* the last parsed one is still in the parser's operation collection.
C9_LastOccurrenceWins ==
    \A i, j \in 1..Len(parse_log) :
        (/\ i < j
         /\ parse_log[i].raw.operationId # None
         /\ parse_log[i].raw.operationId = parse_log[j].raw.operationId)
            => ~(/\ parse_log[i].key \in DOMAIN operations
                 /\ operations[parse_log[i].key].operationId = parse_log[i].raw.operationId)

\* C9 amended: the collection is keyed by the operation's (path, verb), not
\* by its operationId: every parsed operation stays in it under its own key
\* with its own operationId and path, so operations that share an explicit
\* operationId are all present.
C9_KeyedByPathAndVerb ==
    /\ Cardinality(DOMAIN operations) = Len(parse_log)
    /\ \A i \in 1..Len(parse_log) :
           /\ parse_log[i].key \in DOMAIN operations
           /\ operations[parse_log[i].key].operationId = parse_log[i].raw.operationId
           /\ operations[parse_log[i].key].path = parse_log[i].path_name

\* C9 witness: two parsed operations with the same explicit operationId,
\* both in the collection.
C9_Witness ==
    \E i, j \in 1..Len(parse_log) :
        /\ i < j
        /\ parse_log[i].raw.operationId = IdX
        /\ parse_log[j].raw.operationId = IdX
        /\ operations[parse_log[i].key].operationId = IdX
        /\ operations[parse_log[j].key].operationId = IdX

\* C10: the primary response is the type of the first content entry of
\* status "200", or 'None' when "200" is absent or has no content; and
\* additional_responses has exactly one entry, under its status code, for
\* every other status code with a content entry, and none for "200".
C10_PrimaryAndAdditionalResponses ==
    \A p \in 1..Len(parse_log) :
        LET data_types == parse_log[p].raw.responses.data_types
            op == operations[parse_log[p].key]
            extra == op.additional_responses
        IN  parse_log[p].raw.responses.present =>
            /\ \A i \in 1..Len(data_types) :
                   (data_types[i].status_code = "200" /\ data_types[i].contents # <<>>)
                       => op.response = data_types[i].contents[1]
            /\ (~\E i \in 1..Len(data_types) :
                   data_types[i].status_code = "200" /\ data_types[i].contents # <<>>)
                       => op.response = <<"None">>
            /\ \A i \in 1..Len(data_types) :
                   (data_types[i].status_code # "200" /\ data_types[i].contents # <<>>)
                       => Cardinality({n \in 1..Len(extra) :
                             extra[n].status_code = data_types[i].status_code}) = 1
            /\ \A n \in 1..Len(extra) :
                   /\ extra[n].status_code # "200"
                   /\ \E i \in 1..Len(data_types) :
                          /\ data_types[i].status_code = extra[n].status_code
                          /\ data_types[i].contents # <<>>
                          /\ extra[n].model = data_types[i].contents[1]

\* C10 witness: a responses map with a "200" that has content next to
\* another status code with content, parsed into one additional response.
C10_Witness ==
    \E p \in 1..Len(parse_log) :
        LET data_types == parse_log[p].raw.responses.data_types
            op == operations[parse_log[p].key]
        IN  /\ Len(data_types) = 2
            /\ \E i \in 1..2 : data_types[i].status_code = "200" /\ data_types[i].contents # <<>>
            /\ \E i \in 1..2 : data_types[i].status_code = "404" /\ data_types[i].contents # <<>>
            /\ Len(op.additional_responses) = 1
            /\ op.response # <<"None">>

\* The status codes of the model that report success.
SuccessStatusCodes == {"200", "201"}

\* The distinct types declared under "200" and the other success codes, the
\* "200" type first, then in order of declaration.
SuccessTypes(data_types) ==
    LET ok == SelectSeq(data_types,
                  LAMBDA e : /\ e.status_code \in SuccessStatusCodes
                             /\ e.status_code # "200"
                             /\ e.contents # <<>>)
    IN  DistinctInOrder((IF HasContent200(data_types)
                         THEN <<response_type_hint(data_types)>> ELSE <<>>)
                        \o [i \in 1..Len(ok) |-> ok[i].contents[1]])

\* C11: the response type of an operation that declares content under "200"
\* is the union of exactly the distinct types declared under "200" and the other success codes, the
\* "200" type first; a single such type stays that type; a type declared
\* only under a 4xx/5xx code is not a member of the union.
C11_UnionOfSuccessTypes ==
    \A p \in 1..Len(parse_log) :
        LET data_types == parse_log[p].raw.responses.data_types
            op == operations[parse_log[p].key]
            types == SuccessTypes(data_types)
        IN  (parse_log[p].raw.responses.present /\ HasContent200(data_types)) =>
                op.return_type =
                    IF Len(types) = 1 THEN types[1]
                    ELSE <<"Union[">> \o Join(types, <<", ">>) \o <<"]">>

\* The request argument a media type gives under its rule.
RuleArgument(media_type) ==
    IF media_type \in {"application/json", "application/vnd.api+json"}
    THEN [name |-> <<"b","o","d","y">>, type_hint |-> <<"Pet">>]
    ELSE IF media_type = "multipart/form-data"
    THEN [name |-> <<"f","i","l","e">>, type_hint |-> <<"UploadFile">>]
    ELSE [name |-> <<"r","e","q","u","e","s","t">>, type_hint |-> <<"Request">>]

\* The request argument of every parsed operation is the one of the first
\* media object that has a schema and whose media type is in `ruled_types`;
\* with no such media object the operation has no request argument and no
\* argument at all, and the parse goes on.
FirstRuledMediaWins(ruled_types) ==
    /\ ~failed
    /\ \A p \in 1..Len(parse_log) :
        LET body == parse_log[p].raw.requestBody
            op == operations[parse_log[p].key]
            ruled == SelectSeq(body.content,
                         LAMBDA m : m.has_schema /\ m.media_type \in ruled_types)
        IN  body.present =>
                IF ruled = <<>>
                THEN op.arguments_list = <<>>
                ELSE /\ Len(op.arguments_list) = 1
                     /\ op.arguments_list[1].name = RuleArgument(ruled[1].media_type).name
                     /\ op.arguments_list[1].type_hint
                            = RuleArgument(ruled[1].media_type).type_hint

\* C12 as stated: the handling rules are those of application/*json,
\* application/x-www-form-urlencoded and multipart/form-data; the request
\* argument is the one of the first media type with such a rule, and an
\* operation none of whose media types has one has no request argument.
C12_FirstOfThreeRulesWins ==
    FirstRuledMediaWins({"application/json", "application/vnd.api+json",
                         "application/x-www-form-urlencoded", "multipart/form-data"})

\* C12 amended: application/octet-stream has a handling rule too (the
\* raw-request placeholder), and a media object has a rule only when it
\* carries a schema; the request argument is the one of the first media
\* object with a rule, and with none the operation has no request argument.
C12_FirstOfFourRulesWins ==
    FirstRuledMediaWins({"application/json", "application/vnd.api+json",
                         "application/x-www-form-urlencoded", "application/octet-stream",
                         "multipart/form-data"})

\* C12 witness: a request body that declares two media types with different
\* rules (multipart/form-data, then application/json), parsed into the one
\* argument of the first.
C12_Witness ==
    \E p \in 1..Len(parse_log) :
        LET content == parse_log[p].raw.requestBody.content
            op == operations[parse_log[p].key]
        IN  /\ Len(content) = 2
            /\ content[1].media_type = "multipart/form-data" /\ content[1].has_schema
            /\ content[2].media_type = "application/json" /\ content[2].has_schema
            /\ Len(op.arguments_list) = 1
            /\ op.arguments_list[1].name = <<"f","i","l","e">>

\* The alias binding `<Location>(<value>, alias='<original name>')`.
AliasBinding(parameter, required) ==
    <<LocationName(parameter.in_), "(">>
    \o (IF required THEN <<"...">>
        ELSE IF parameter.schema.has_default THEN parameter.schema.default ELSE <<"None">>)
    \o <<", alias='">> \o parameter.name \o <<"')">>

\* C13: every parameter gives an Argument, also one without a location; when
\* normalisation changes the name the default is the alias binding, with
\* `...` exactly when the argument is required; when the name is unchanged
\* there is no alias binding: the default is the schema default if declared,
\* else absent (or the `...` the default-forcing step puts on a required
\* argument without default).
C13_AliasBindingForEveryParameter ==
    /\ ~failed
    /\ \A p \in 1..Len(parse_log) :
        LET parameters == parse_log[p].raw.parameters
            args == operations[parse_log[p].key].arguments_list
        IN  /\ Len(args) >= Len(parameters)
            /\ \A i \in 1..Len(parameters) :
                IF args[i].name # parameters[i].name
                THEN args[i].default = AliasBinding(parameters[i], args[i].required)
                ELSE IF parameters[i].schema.has_default
                THEN args[i].default = parameters[i].schema.default
                ELSE \/ args[i].default = None
                     \/ args[i].required /\ args[i].default = <<"...">>

\* The parameters of the scenario: a required string path parameter itemId
\* and an optional integer query parameter limit with schema default 10.
ScenarioParameters ==
    <<[name |-> NameItemId, in_ |-> "path", required |-> TRUE,
       schema |-> Schema(FALSE, field_type_hint("str", TRUE))],
      [name |-> NameLimit, in_ |-> "query", required |-> FALSE,
       schema |-> Schema(TRUE, field_type_hint("int", FALSE))]>>

ItemIdSnake == <<"i","t","e","m","_","i","d">>

\* The operation of the scenario has exactly two arguments, item_id and
\* limit, and its argument text, as computed and as every read returned it,
\* is `text`.
ScenarioRendersAs(text) ==
    \A p \in 1..Len(parse_log) :
        LET key == parse_log[p].key
            args == operations[key].arguments_list
        IN  parse_log[p].raw.parameters = ScenarioParameters =>
            /\ Len(args) = 2
            /\ args[1].name = ItemIdSnake /\ args[1].required
            /\ args[2].name = NameLimit /\ ~args[2].required
            /\ snake_case_arguments_text(args) = text
            /\ \A r \in 1..Len(reads) : reads[r].key = key => reads[r].text = text

\* C14 as stated: the scenario's arguments render as `item_id: str`, without
\* default, and `limit: int = 10`.
C14_ScenarioPlainArguments ==
    ScenarioRendersAs(ItemIdSnake \o <<": ", "str", ", ">>
                      \o NameLimit \o <<": ", "int", " = ", "10">>)

\* C14 amended: the scenario's arguments render as
\* `item_id: str = Path(..., alias='itemId')`, the alias binding of the
\* renamed path parameter, and `limit: Optional[int] = 10`, the optional
\* field's hint followed by the schema default.
C14_ScenarioAliasedArguments ==
    ScenarioRendersAs(ItemIdSnake \o <<": ", "str", " = ", "Path", "(", "...", ", alias='">>
                      \o NameItemId \o <<"')", ", ">>
                      \o NameLimit \o <<": ", "Optional[", "int", "]", " = ", "10">>)

\* C14 witness: the scenario's operation has been parsed and a template has
\* read its arguments.
C14_Witness ==
    \E p \in 1..Len(parse_log) :
        /\ parse_log[p].raw.parameters = ScenarioParameters
        /\ \E r \in 1..Len(reads) : reads[r].key = parse_log[p].key

\* The text an operation surfaces for its arguments: as computed from its
\* list now, and as each read of the operation returned it.
SurfacedTexts(key) ==
    {arguments_text(operations[key].arguments_list)}
    \cup {reads[r].text : r \in {n \in 1..Len(reads) : reads[n].key = key}}

\* An operation that declares the parameter `filter` once, with this type.
DeclaresFilterOnce(p, type) ==
    /\ Len(parse_log[p].raw.parameters) = 1
    /\ parse_log[p].raw.parameters[1].schema.type_hint = <<type>>

\* C15 as stated: when one operation declares `filter` as a string and a
\* sibling operation declares `filter` as an integer, both surface
\* `filter` typed with the union of string and integer.
C15_SiblingsSurfaceUnion ==
    \A p, q \in 1..Len(parse_log) :
        (DeclaresFilterOnce(p, "str") /\ DeclaresFilterOnce(q, "int")) =>
            \A key \in {parse_log[p].key, parse_log[q].key} :
                SurfacedTexts(key) =
                    {NameFilter \o <<": ", "Union[", "str", ", ", "int", "]">>}

\* C15 amended: the Union Merge pass works on one operation's own argument
\* list.  An operation that declares `filter` once surfaces it with the type
\* it declared, whatever its siblings declare; an operation whose own list
\* holds `filter` twice surfaces, at its first read, one `filter` typed with
\* the union of the two declared types in declaration order.
C15_MergeWithinOneOperation ==
    \A p \in 1..Len(parse_log) :
        LET key == parse_log[p].key
            parameters == parse_log[p].raw.parameters
            first_reads == {r \in 1..Len(reads) :
                               /\ reads[r].key = key
                               /\ \A n \in 1..(r - 1) : reads[n].key # key}
        IN  /\ \A type \in {"str", "int"} :
                DeclaresFilterOnce(p, type) =>
                    SurfacedTexts(key) = {NameFilter \o <<": ", type>>}
            /\ Len(parameters) = 2 =>
                \A r \in first_reads :
                    reads[r].text =
                        NameFilter \o <<": ", "Union[">> \o parameters[1].schema.type_hint
                        \o <<", ">> \o parameters[2].schema.type_hint \o <<"]">>

\* C15 witness: two sibling operations, one declaring `filter` as a string
\* and the other as an integer, both parsed and both read.
C15_Witness ==
    \E p, q \in 1..Len(parse_log) :
        /\ DeclaresFilterOnce(p, "str") /\ DeclaresFilterOnce(q, "int")
        /\ \E r \in 1..Len(reads) : reads[r].key = parse_log[p].key
        /\ \E r \in 1..Len(reads) : reads[r].key = parse_log[q].key

\* An argument with its default left out.
WithoutDefault(arg) == [arg EXCEPT !.default = None]

\* C16: the argument list built for an operation holds one argument for
\* each parameter, in the order the parameters were collected, then the
\* request argument as the last element when there is one, and nothing
\* else; apart from its default every argument is as get_parameter_type or
\* parse_request_body built it.
C16_ParametersThenRequest ==
    \A p \in 1..Len(parse_log) :
        LET raw == parse_log[p].raw
            args == operations[parse_log[p].key].arguments_list
            request == IF raw.requestBody.present THEN parse_request_body(raw.requestBody)
                       ELSE NoArgument
            n == Len(raw.parameters)
        IN  Unread =>
            /\ Len(args) = n + (IF request = NoArgument THEN 0 ELSE 1)
            /\ \A i \in 1..n :
                   /\ args[i].name = snakecase(get_valid_field_name(raw.parameters[i].name))
                   /\ WithoutDefault(args[i])
                          = WithoutDefault(get_parameter_type(raw.parameters[i], TRUE))
            /\ request # NoArgument =>
                   WithoutDefault(args[n + 1]) = WithoutDefault(request)

\* C16 witness: an operation with two parameters of different names and a
\* request body, whose body argument the forcing step gave a default.
C16_Witness ==
    \E p \in 1..Len(parse_log) :
        LET raw == parse_log[p].raw
            args == operations[parse_log[p].key].arguments_list
        IN  /\ Unread
            /\ Len(raw.parameters) = 2
            /\ raw.parameters[1].name # raw.parameters[2].name
            /\ raw.requestBody.present
            /\ Len(args) = 3
            /\ args[3].name = NameBody
            /\ args[3].default = <<"...">>

\* C17: the list get_operations hands to the renderer is a permutation of
\* the parser's operations, in non-decreasing order of path, and the
\* operations of one path are in the order in which they were stored.
C17_SortedByPathStable ==
    LET values == operations_values
        sorted_operations == get_operations(values)
    IN  /\ Len(sorted_operations) = Len(values)
        /\ \A i \in 1..Len(values) :
               Cardinality({j \in 1..Len(values) : values[j] = values[i]})
                   = Cardinality({j \in 1..Len(sorted_operations) :
                                     sorted_operations[j] = values[i]})
        /\ \A i, j \in 1..Len(sorted_operations) :
               i < j => ~str_lt(sorted_operations[j].path, sorted_operations[i].path)
        /\ \A i \in 1..Len(values) :
               SelectSeq(sorted_operations, LAMBDA m : m.path = values[i].path)
                   = SelectSeq(values, LAMBDA m : m.path = values[i].path)

\* C17 witness: two operations of one path stored as post, then get, which
\* the list hands on in that order.
C17_Witness ==
    /\ Len(parse_log) = 2
    /\ parse_log[1].key = <<PathLiteral, MethodPost>>
    /\ parse_log[2].key = <<PathLiteral, MethodGet>>
    /\ get_operations(operations_values)
           = <<operations[<<PathLiteral, MethodPost>>], operations[<<PathLiteral, MethodGet>>]>>

\* The tags a document of the model can declare.
KnownTags == UNION {document.tags : document \in Documents}

\* The tags asked for by a call, as a set.
TagList(run) == {strip(run.specify_tags[i]) : i \in 1..Len(run.specify_tags)}

\* The tags whose canonical identifier names the unit at this path.
TagsOfUnit(path) == {tag \in KnownTags : router_name(tag) = path.name}

\* C18: in every call in router mode with an explicit tag list, the unit
\* routers/<id>.py of a tag is written if and only if the tag is in the
\* list or the file does not exist yet, and every unit that exists and whose
\* tag is not in the list keeps its bytes, whatever main.py holds.
C18_OnlyRequestedUnitsRewritten ==
    \A r \in 1..Len(runs) :
        LET run == runs[r]
        IN  (run.generate_routers /\ run.specify_tags # <<>>) =>
            /\ \A i \in 1..Len(run.tags) :
                   LET unit == RouterPy(router_name(run.tags[i]))
                   IN  unit \in run.written
                           <=> (strip(run.tags[i]) \in TagList(run)
                                \/ unit \notin DOMAIN run.before)
            /\ \A path \in DOMAIN run.before :
                   (path.dir = "routers" /\ TagsOfUnit(path) \cap TagList(run) = {})
                       => run.after[path] = run.before[path]

\* The identifier of a tag: strip it, put "_" for each space and "_" in
\* front of each capital that is not at the start, not behind another
\* capital and, when `behind_space` is FALSE, not behind a space; lowercase.
Identifier(tag, behind_space) ==
    LET t == strip(tag)
    IN  lower(Concat([i \in 1..Len(t) |->
            IF t[i] = " " THEN <<"_">>
            ELSE IF /\ IsUpper(t[i]) /\ i > 1 /\ ~IsUpper(t[i - 1])
                    /\ (behind_space \/ t[i - 1] # " ")
            THEN <<"_", t[i]>>
            ELSE <<t[i]>>]))

\* In every call the router names are the identifiers of the call's tags,
\* none holds a capital or a space, and the tags are sorted without regard
\* to case.
IdentifiersOfSortedTags(behind_space) ==
    \A r \in 1..Len(runs) :
        LET tags == runs[r].tags
            routers == runs[r].routers
        IN  /\ Len(routers) = Len(tags)
            /\ {routers[i] : i \in 1..Len(routers)}
                   = {Identifier(tags[i], behind_space) : i \in 1..Len(tags)}
            /\ \A i \in 1..Len(routers) : \A k \in 1..Len(routers[i]) :
                   ~IsUpper(routers[i][k]) /\ routers[i][k] # " "
            /\ \A i, j \in 1..Len(tags) :
                   i < j => ~str_lt(lower(tags[j]), lower(tags[i]))

\* C19 as stated: the identifier has a separator in front of every capital
\* that is not at the start and not behind another capital, and a separator
\* at each space.
C19_SeparatorBeforeEachCapital == IdentifiersOfSortedTags(TRUE)

\* C19 amended: no separator goes in front of a capital that follows a
\* space, the space itself being the only separator there (`W B` gives
\* `w_b`); the identifier holds no capital and no space, and the tags are
\* sorted without regard to case.
C19_OneSeparatorAtSpace == IdentifiersOfSortedTags(FALSE)

\* C19 witness: a call whose tags are ` APi `, `ab`, `aZ`, `W B` in this
\* order, with the router names api, a_z, ab and w_b.
C19_Witness ==
    \E r \in 1..Len(runs) :
        /\ runs[r].tags = <<TagAPi, TagAb, TagAZ, TagWB>>
        /\ {runs[r].routers[i] : i \in 1..Len(runs[r].routers)}
               = {<<"a","p","i">>, <<"a","_","z">>, <<"a","b">>, <<"w","_","b">>}

\* The files a call wrote, with their contents.
WrittenFiles(run) == [path \in run.written |-> run.after[path]]

\* C20: two calls in router mode on the same document with the same options
\* write the same files with the same bytes (the calls share input name and
\* clock); the calls compared start from the same output directory or give
\* no tag list, so that no existing file decides what is written.
C20_SameInputSameFiles ==
    \A r, q \in 1..Len(runs) :
        (/\ runs[r].generate_routers /\ runs[q].generate_routers
         /\ runs[r].document = runs[q].document
         /\ runs[r].specify_tags = runs[q].specify_tags
         /\ (runs[r].before = runs[q].before \/ runs[r].specify_tags = <<>>))
            => WrittenFiles(runs[r]) = WrittenFiles(runs[q])

\* The call started the step.
Started(run, step) == \E k \in 1..Len(run.started) : run.started[k] = step

\* C21: a call that raises in the parse, in the check of what the parse
\* returned, in a visitor or in the rendering leaves every file of the output
\* directory as it was and writes none; a call writes only when the parse,
\* every visitor and all the rendering have run to their end.
C21_FailedBuildWritesNothing ==
    \A r \in 1..Len(runs) :
        /\ runs[r].raised # "" =>
               /\ runs[r].after = runs[r].before
               /\ runs[r].written = {}
               /\ ~Started(runs[r], "write")
        /\ Started(runs[r], "write") =>
               \A step \in RaisingSteps :
                   Started(runs[r], step) /\ step \notin runs[r].conditions

\* C21 witness: over the files of an earlier call, one call fails in the
\* rendering and one in the parse.
C21_Witness ==
    /\ Len(runs) = 2
    /\ runs[1].raised = ""
    /\ runs[2].before # <<>>
    /\ runs[2].raised = "render"
    /\ runs[2].document # runs[1].document

\* C23: a visitor module without `visit` is detected before parser.parse
\* starts, before any visitor is called and before any file is written.
C23_MissingVisitDetectedBeforeParse ==
    \A r \in 1..Len(runs) :
        "load visitors" \in runs[r].conditions =>
            /\ ~Started(runs[r], "parse")
            /\ ~Started(runs[r], "call visitors")
            /\ runs[r].written = {}

\* The raw operation has a parameter with neither a schema nor a content
\* schema.
HasSchemalessParameter(raw) ==
    \E i \in 1..Len(raw.parameters) : ~raw.parameters[i].schema.present

\* C22: a parameter that lacks a schema yields no Argument and does not stop
\* the parse of the document: the operation that declares it is stored, built
\* from its remaining parameters, and the parse goes on with the other
\* operations.
C22_SchemalessParameterIsSkipped ==
    [][\A key \in DocumentKeys, raw \in DocumentRawOperations :
          (HasSchemalessParameter(raw) /\ ParseOperation(raw, key[1], key[2])) =>
              /\ ~failed'
              /\ resolved_path(key[1], key[2]) \in DOMAIN operations'
              /\ operations'[resolved_path(key[1], key[2])].arguments_list
                     = get_argument_list(
                           SelectSeq(raw.parameters, LAMBDA p : p.schema.present),
                           NoArgument, FALSE)]_vars

\* What one raw operation by itself gives the fields of its Operation.
OwnFields(raw) ==
    [arguments_list |->
         get_argument_list(raw.parameters,
                           IF raw.requestBody.present
                           THEN parse_request_body(raw.requestBody) ELSE NoArgument,
                           TRUE),
     response |-> IF raw.responses.present
                  THEN response_type_hint(raw.responses.data_types) ELSE <<>>,
     additional_responses |->
         IF raw.responses.present
         THEN additional_responses_of(raw.responses.data_types) ELSE <<>>,
     return_type |-> IF raw.responses.present
                     THEN return_type_hint(raw.responses.data_types) ELSE <<>>]

\* The fields of a stored Operation that parse_operation takes from the
\* scratch dict.
ScratchFields(op) ==
    [arguments_list |-> op.arguments_list, response |-> op.response,
     additional_responses |-> op.additional_responses,
     return_type |-> op.return_type]

\* C30: the argument list (request argument included), the response, the
\* return type and the additional responses of every stored Operation are
\* those of its own raw operation, with nothing of an operation parsed before
\* it and nothing of its callbacks; those of a callback are those of the
\* callback's raw operation, with no parameter and no body of its parent or
\* of an earlier callback.
C30_ScratchNeverLeaks ==
    \A p \in 1..Len(parse_log) :
        LET raw == parse_log[p].raw
            op == operations[parse_log[p].key]
        IN  /\ ScratchFields(op) = OwnFields(raw)
            /\ Len(FlatCallbacks(op)) = Len(raw.callbacks)
            /\ \A i \in 1..Len(raw.callbacks) :
                   ScratchFields(FlatCallbacks(op)[i]) = OwnFields(raw.callbacks[i].op)

\* C30 witness: after an operation with parameters, a parent with a
\* parameter, a body and a response is stored with a full callback followed
\* by a bare one, and the bare one has no argument and no response.
C30_Witness ==
    /\ Len(parse_log) = 2
    /\ parse_log[1].raw.parameters # <<>>
    /\ LET raw == parse_log[2].raw
           op == operations[parse_log[2].key]
       IN  /\ raw.parameters # <<>> /\ raw.requestBody.present
           /\ Len(raw.callbacks) = 2
           /\ raw.callbacks[1].op = FullCallbackOperation
           /\ raw.callbacks[2].op = CallbackOperation(None)
           /\ Len(op.arguments_list) = 2
           /\ FlatCallbacks(op)[2].arguments_list = <<>>
           /\ FlatCallbacks(op)[2].response = <<>>

\* C27: every stored Operation has the verb of its (path, verb) pair as its
\* method and the path of the pair as its path, whatever callbacks the
\* operation declares.
C27_MethodAndPathOfTheOperation ==
    \A p \in 1..Len(parse_log) :
        /\ operations[parse_log[p].key].method = parse_log[p].method
        /\ operations[parse_log[p].key].path = parse_log[p].path_name

\* The elements of a list.
Elements(list) == {list[i] : i \in 1..Len(list)}

\* C28: the tag list and the router list of a call hold only tags of the
\* document of that call and their identifiers, none of an earlier call, and
\* both are empty when the call does not generate routers.
C28_TagsOfThisCallOnly ==
    \A r \in 1..Len(runs) :
        /\ Elements(runs[r].tags) \subseteq runs[r].document.tags
        /\ Elements(runs[r].routers)
               \subseteq {router_name(tag) : tag \in runs[r].document.tags}
        /\ ~runs[r].generate_routers =>
               runs[r].tags = <<>> /\ runs[r].routers = <<>>

\* C29: the i-th router identifier of a call is the identifier of its i-th
\* tag, distinct tags have distinct identifiers, and the unit
\* routers/<id>.py is rendered for the tag whose identifier is <id>.
C29_RouterPairedWithItsTag ==
    \A r \in 1..Len(runs) :
        /\ Len(runs[r].routers) = Len(runs[r].tags)
        /\ \A i \in 1..Len(runs[r].tags) :
               runs[r].routers[i] = router_name(runs[r].tags[i])
        /\ \A i, j \in 1..Len(runs[r].tags) :
               runs[r].tags[i] # runs[r].tags[j] =>
                   router_name(runs[r].tags[i]) # router_name(runs[r].tags[j])
        /\ \A path \in runs[r].written :
               path.dir = "routers" =>
                   \E tag \in Elements(runs[r].tags) :
                       /\ router_name(tag) = path.name
                       /\ runs[r].after[path].tag = strip(tag)

\* The index module of a module path, as a key of the returned map.
IndexKey(module_path) ==
    [k \in 1..(Len(module_path) + 1) |->
        IF k <= Len(module_path) THEN replace_hyphen(module_path[k]) ELSE InitPy]

\* C24: when the parse returns a module map, the map has an index entry at
\* every level (p1, ..., pk), 0 <= k < n, above each module (p1, ..., pn)
\* that holds a model, also when no shallower module follows the deepest
\* one and when the levels between hold no model.
C24_EveryAncestorHasAnEntry ==
    (parse_input # <<>> /\ ~module_results.raised /\ ~module_results.single) =>
        \A m \in 1..Len(parse_input.models) :
            \A k \in 0..(Len(parse_input.models[m].module_path) - 1) :
                IndexKey(SubSeq(parse_input.models[m].module_path, 1, k))
                    \in DOMAIN module_results.modules

\* The fields of the models of a module.
FieldsOf(models) ==
    UNION {{models[m].fields[f] : f \in 1..Len(models[m].fields)} : m \in 1..Len(models)}

C26_NoTypeNamedLikeAField ==
    (parse_input # <<>> /\ ~module_results.raised) =>
        \A i \in 1..Len(processed_models) :
            /\ \A f, g \in FieldsOf(processed_models[i].models) : f.type # g.name
            /\ \A m \in 1..Len(processed_models[i].models) :
                   \A f \in 1..Len(processed_models[i].models[m].fields) :
                       LET before == parse_input.models[m].fields[f]
                           after == processed_models[i].models[m].fields[f]
                       IN  (after.type # before.type /\ after.import_.present) =>
                               after.import_.alias = after.type

====
